---- MODULE Spec2Model ----
(***************************************************************************)
(* AgeGate: the age-gate decision-and-expiry engine of src/agegate.py.     *)
(*                                                                         *)
(* The cog runs on one cooperative scheduler.  Every `await` of the code   *)
(* is a suspension point, so every action below is the code that runs      *)
(* from the completion of one await to the start of the next one.          *)
(* Instants are integer epoch seconds.                                     *)
(***************************************************************************)
EXTENDS Integers, FiniteSets, Sequences, TLC

\* ------------------------------------------------------------- bounds
NumGuilds == 2
NumUsers == 2
MaxTicks == 2
MaxRateLimit == 2
StartTime == 1000000
MaxCalls == 2

\* -------------------------------------------------- program constants
RateWindow == 60
DefaultMinAge == 604800
DefaultTempBan == 604800
DefaultDelay == 86400
DefaultRateLimit == 5
DaySeconds == 86400

Guilds == 1..NumGuilds
Users == 1..NumUsers

VARIABLES
    now,              \* discord.utils.utcnow(), epoch seconds
    ticks,            \* how often the clock has advanced (bounded)
    ready,            \* the hosting connection is established
    config,           \* guild -> the admin-set part of the guild record
    rate,             \* guild -> [last_ban_timestamp, recent_bans_count]
    delayed_members,  \* guild -> (user -> instant the punishment is due)
    temp_banned_users,\* guild -> (user -> instant the ban is to be lifted)
    lockDelayed,      \* guild -> the delayed_members value lock is held
    lockTemp,         \* guild -> the temp_banned_users value lock is held
    members,          \* guild -> users present in the guild
    banned,           \* guild -> users on the guild's ban list
    join,             \* user -> the on_member_join handler run for that member
    unb,              \* the unban_task loop
    dly,              \* the delayed_punishment_task loop
    calls,            \* ledger -> guild -> user -> the ban or unban calls the
                      \* sweeps have made for the entry the table holds
    sub,              \* the settings modal whose on_submit is under way, as typed
    wiz               \* the run of agegateset configure: its step, the modal
                      \* it has put before the admin, the summary

vars == <<now, ticks, ready, config, rate, delayed_members, temp_banned_users,
          lockDelayed, lockTemp, members, banned, join, unb, dly, calls,
          sub, wiz>>


\* ------------------------------------------------------------ helpers
\* A ledger table is a dict: a function whose domain is its set of keys.
EmptyTable == [u \in {} |-> 0]
\* temp_banned_users[str(member.id)] = ... / delayed_members[...] = ... (upsert)
Put(table, u, t) == [x \in (DOMAIN table) \cup {u} |-> IF x = u THEN t ELSE table[x]]
\* (faulty variant: no finally clause, the entry is kept)
Del_Keep(table, u) == table

\* if user_id_str in table: del table[user_id_str]
Del(table, u) == [x \in (DOMAIN table) \ {u} |-> table[x]]

\* default_guild, the admin-set keys
DefaultConfig ==
    [enabled |-> FALSE,
     min_age_seconds |-> DefaultMinAge,
     action_type |-> "ban",
     ban_type |-> "permanent",
     temp_ban_duration_seconds |-> DefaultTempBan,
     delay_punishment_seconds |-> DefaultDelay,
     staff_notification_channel_id |-> 0,
     join_rate_limit |-> DefaultRateLimit]

\* default_guild, the rate limiter's keys; reset_at is not a key of the
\* record: it notes the instant of the last reset of the counter, for the
\* properties that speak of it.
DefaultRate == [last_ban_timestamp |-> 0, recent_bans_count |-> 0, reset_at |-> 0]

\* A handler run that has not started.  did: what the run has done so far
\* (platform calls and store writes), kept for the run's whole life.
IdleJoin ==
    [pc |-> "idle", g |-> 0, s |-> DefaultConfig, now |-> 0,
     age |-> 0, chk |-> 0, cnt |-> 0, copy |-> EmptyTable, did |-> {},
     banAt |-> 0]

\* The handler returns: its locals are dropped, what it did stays on record
\* (that it had to wait for a table does not).
Finish(r) ==
    [r EXCEPT !.pc = "done", !.now = 0, !.chk = 0, !.cnt = 0,
              !.copy = EmptyTable, !.did = @ \ {"waited"}]

\* An exception leaves on_member_join: the handler's task ends with it.
Raise(r) == [Finish(r) EXCEPT !.pc = "raised"]

\* The classes an exception of the platform library belongs to: Forbidden
\* and NotFound are HTTPExceptions, every one of them is an Exception
\* ("error").
Ancestors(e) ==
    CASE e = "forbidden" -> {"forbidden", "http", "error"}
      [] e = "notfound" -> {"notfound", "http", "error"}
      [] e = "http" -> {"http", "error"}
      [] OTHER -> {"error"}

\* (faulty variant: an except clause takes only the class it names)
Catches_ExactClass(clauses, e) == e \in clauses

\* try: ... except <clauses>: the exception e is taken by one of the
\* clauses (a clause takes its class and the subclasses).
Catches(clauses, e) == Ancestors(e) \cap clauses # {}

\* ------------------------------------------------- admission evaluator
\* (faulty variant: the enabled gate is never taken)
GateOff_Never(s) == FALSE

\* if not settings["enabled"]: return
GateOff(s) == ~s.enabled

\* (faulty variant: an account of exactly min_age counts as too new)
TooNew_Inclusive(age, s) == age <= s.min_age_seconds

\* account_age < timedelta(seconds=settings["min_age_seconds"])
TooNew(age, s) == age < s.min_age_seconds

\* (faulty variant: the delay is not added, the entry is due at once)
PunishmentTime_NoDelay(t, s) == t

\* punishment_time = now + timedelta(seconds=delay_seconds)
PunishmentTime(t, s) == t + s.delay_punishment_seconds

\* (faulty variant: every ban is entered in temp_banned_users)
IsTemporary_Always(s) == TRUE

\* if settings["ban_type"] == "temporary":
IsTemporary(s) == s.ban_type = "temporary"

\* (faulty variant: the duration is not added, the ban expires at once)
UnbanTime_NoDuration(t, s) == t

\* unban_time = now + timedelta(seconds=settings["temp_ban_duration_seconds"])
UnbanTime(t, s) == t + s.temp_ban_duration_seconds

\* ------------------------------------------------------- rate limiter
\* (faulty variant: the counters are kept in one record for all guilds)
RateKey_Global(g) == 1

\* self.config.guild(guild): the counters are those of the member's guild.
RateKey(g) == g

\* (faulty variant: the limit is compared with > instead of >=)
RateDecision_OffByOne(last, count, limit, t) ==
    IF t - last > RateWindow THEN "reset"
    ELSE IF count > limit THEN "reject"
    ELSE "admit"

\* (faulty variant: the window is compared with >= instead of >)
RateDecision_Inclusive(last, count, limit, t) ==
    IF t - last >= RateWindow THEN "reset"
    ELSE IF count >= limit THEN "reject"
    ELSE "admit"

\* (faulty variant: the limit is tested before the window)
RateDecision_LimitFirst(last, count, limit, t) ==
    IF count >= limit THEN "reject"
    ELSE IF t - last > RateWindow THEN "reset"
    ELSE "admit"

\* (faulty variant: the counter is written back unchanged)
NewCount_Stuck(count) == count

\* new_count = settings["recent_bans_count"] + 1
NewCount(count) == count + 1

\* _check_rate_limit's decision on one reading of the record and the clock:
\* "reset" (zero the counter, stamp, admit), "reject" or "admit".
RateDecision(last, count, limit, t) ==
    IF t - last > RateWindow THEN "reset"
    ELSE IF count >= limit THEN "reject"
    ELSE "admit"


\* (faulty variant: the block is left with the value lock still held)
Release_Never(lock, g) == lock

\* The async with block on a table is left: the value lock of guild g's
\* table is released.
Release(lock, g) == [lock EXCEPT ![g] = FALSE]

\* (faulty variant: the tables are opened without their value lock)
Free_NoLock(lock, g) == TRUE

\* async with self.config.guild(guild).<table>(): the block is entered when
\* the value lock of guild g's table is free.
Free(lock, g) == ~lock[g]

\* ------------------------------------------------------ on_member_join
\* The platform admits `u` to guild g and dispatches on_member_join; the
\* handler's first await is pending.
MemberJoin(u, g) ==
    /\ join[u].pc \in {"idle", "done"}
    /\ u \notin members[g]
    /\ u \notin banned[g]
    /\ members' = [members EXCEPT ![g] = @ \cup {u}]
    /\ join' = [join EXCEPT ![u] = [IdleJoin EXCEPT !.pc = "read", !.g = g]]
    /\ UNCHANGED <<wiz, sub, calls, now, ticks, ready, config, rate, delayed_members,
                   temp_banned_users, lockDelayed, lockTemp, banned, unb, dly>>

\* The delayed-punishment sweep is inside its async with block on guild g's
\* delayed_members.
HeldBySweep(g) ==
    dly.g = g /\ dly.pc \in {"pun_read", "pun_dm", "pun_ban", "pun_tb_lock",
                              "pun_tb_write", "write"}

\* settings = await self.config.guild(guild).all(), then the enabled gate,
\* the age test (member.created_at is `created`) and the dispatch on
\* action_type, up to the next await.
OnJoin_Read(u, created) ==
    LET r == join[u]
        s == config[r.g]
        age == now - created
        r1 == [r EXCEPT !.s = s, !.now = now, !.age = age]
    IN  /\ r.pc = "read"
        /\ join' = [join EXCEPT ![u] =
               IF GateOff(s) THEN Finish(r1)
               ELSE IF ~TooNew(age, s) THEN Finish(r1)
               ELSE IF s.action_type = "notify" THEN [r1 EXCEPT !.pc = "ns_read"]
               ELSE IF s.action_type = "delay"
                    THEN [r1 EXCEPT !.pc = "dl_lock",
                                    !.did = IF HeldBySweep(r.g) THEN {"waited"}
                                            ELSE {}]
               ELSE IF s.action_type = "ban" THEN [r1 EXCEPT !.pc = "rl_read"]
               ELSE Finish(r1)]
        /\ UNCHANGED <<wiz, sub, calls, now, ticks, ready, config, rate, delayed_members,
                       temp_banned_users, lockDelayed, lockTemp, members, banned, unb, dly>>

\* (faulty variant: the unset channel is not tested for)
NoChannel_Never(s) == FALSE

\* if not settings["staff_notification_channel_id"]: return False
NoChannel(s) == s.staff_notification_channel_id = 0

\* _notify_staff: settings = await ...all(); no channel configured, an
\* invalid channel or no send permission return False; otherwise the send
\* is awaited.  `channel` is what the platform answers for the channel id.
Notify_Read(u, channel) ==
    LET r == join[u]
        s == config[r.g]
    IN  /\ r.pc = "ns_read"
        /\ join' = [join EXCEPT ![u] =
               IF NoChannel(s) THEN Finish(r)
               ELSE IF channel # "ok" THEN Finish(r)
               ELSE [r EXCEPT !.pc = "ns_send"]]
        /\ UNCHANGED <<wiz, sub, calls, now, ticks, ready, config, rate, delayed_members,
                       temp_banned_users, lockDelayed, lockTemp, members, banned, unb, dly>>

\* await channel.send(embed=embed); any exception is caught and logged.
Notify_Send(u, outcome) ==
    LET r == join[u]
    IN  /\ r.pc = "ns_send"
        /\ outcome \in {"ok", "forbidden", "error"}
        /\ join' = [join EXCEPT ![u] =
               IF outcome = "ok" THEN Finish([r EXCEPT !.did = @ \cup {"alert"}])
               ELSE IF Catches({"error"}, outcome) THEN Finish(r)
               ELSE Raise(r)]
        /\ UNCHANGED <<wiz, sub, calls, now, ticks, ready, config, rate, delayed_members,
                       temp_banned_users, lockDelayed, lockTemp, members, banned, unb, dly>>

\* async with self.config.guild(guild).delayed_members() as delayed_members:
\* the value lock is acquired, the table is read and the entry is set in
\* the local copy.
Delay_Lock(u) ==
    LET r == join[u]
    IN  /\ r.pc = "dl_lock"
        /\ Free(lockDelayed, r.g)
        /\ lockDelayed' = [lockDelayed EXCEPT ![r.g] = TRUE]
        /\ join' = [join EXCEPT ![u] =
               [r EXCEPT !.pc = "dl_write",
                         !.copy = Put(delayed_members[r.g], u,
                                      PunishmentTime(r.now, r.s))]]
        /\ UNCHANGED <<wiz, sub, calls, now, ticks, ready, config, rate, delayed_members,
                       temp_banned_users, lockTemp, members, banned, unb, dly>>

\* Leaving the async with block: the table is written back, the lock freed.
Delay_Write(u) ==
    LET r == join[u]
    IN  /\ r.pc = "dl_write"
        /\ delayed_members' = [delayed_members EXCEPT ![r.g] = r.copy]
        /\ lockDelayed' = Release(lockDelayed, r.g)
        /\ join' = [join EXCEPT ![u] =
               [r EXCEPT !.pc = "ns_read", !.copy = EmptyTable,
                         !.did = @ \cup {"delayed"}]]
        /\ calls' = [calls EXCEPT !["delayed"][r.g][u] = 0]
        /\ UNCHANGED <<wiz, sub, now, ticks, ready, config, rate, temp_banned_users,
                       lockTemp, members, banned, unb, dly>>

\* _check_rate_limit: settings = await ...all(); now = utcnow().timestamp();
\* the decision.  A reset still has its two writes to await.
RateLimit_Read(u) ==
    LET r == join[u]
        d == RateDecision(rate[RateKey(r.g)].last_ban_timestamp,
                          rate[RateKey(r.g)].recent_bans_count,
                          config[r.g].join_rate_limit, now)
    IN  /\ r.pc = "rl_read"
        /\ join' = [join EXCEPT ![u] =
               IF d = "reset" THEN [r EXCEPT !.pc = "rl_zero", !.chk = now]
               ELSE IF d = "reject" THEN Finish([r EXCEPT !.did = @ \cup {"skipped"}])
               ELSE [r EXCEPT !.pc = "dm"]]
        /\ UNCHANGED <<wiz, sub, calls, now, ticks, ready, config, rate, delayed_members,
                       temp_banned_users, lockDelayed, lockTemp, members, banned, unb, dly>>

\* await self.config.guild(guild).recent_bans_count.set(0)
RateLimit_Zero(u) ==
    LET r == join[u]
    IN  /\ r.pc = "rl_zero"
        /\ rate' = [rate EXCEPT ![RateKey(r.g)].recent_bans_count = 0]
        /\ join' = [join EXCEPT ![u] = [r EXCEPT !.pc = "rl_stamp"]]
        /\ UNCHANGED <<wiz, sub, calls, now, ticks, ready, config, delayed_members,
                       temp_banned_users, lockDelayed, lockTemp, members, banned, unb, dly>>

\* await self.config.guild(guild).last_ban_timestamp.set(now); return True
RateLimit_Stamp(u) ==
    LET r == join[u]
    IN  /\ r.pc = "rl_stamp"
        /\ rate' = [rate EXCEPT ![RateKey(r.g)].last_ban_timestamp = r.chk,
                                ![RateKey(r.g)].reset_at = r.chk]
        /\ join' = [join EXCEPT ![u] =
               [r EXCEPT !.pc = "dm", !.chk = 0, !.did = @ \cup {"reset"}]]
        /\ UNCHANGED <<wiz, sub, calls, now, ticks, ready, config, delayed_members,
                       temp_banned_users, lockDelayed, lockTemp, members, banned, unb, dly>>

\* (faulty variant: a message that fails ends the punishment)
AfterSend_StopsOnFailure(outcome, on, off) == IF outcome = "ok" THEN on ELSE off

\* except (discord.Forbidden, discord.HTTPException): pass.  Whatever
\* member.send answered, the code goes on (on) to the try block of the ban;
\* off is where an exception that is not caught would lead.
AfterSend(outcome, on, off) == on

\* await member.send(dm_message); Forbidden and HTTPException are passed over.
Join_DM(u, outcome) ==
    LET r == join[u]
    IN  /\ r.pc = "dm"
        /\ outcome \in {"ok", "forbidden", "http"}
        /\ join' = [join EXCEPT ![u] =
               IF outcome = "ok" \/ Catches({"forbidden", "http"}, outcome)
               THEN AfterSend(outcome,
                        [r EXCEPT !.pc = "ban",
                                  !.did = @ \cup (IF outcome = "ok" THEN {"dm"} ELSE {})],
                        Raise(r))
               ELSE Raise(r)]
        /\ UNCHANGED <<wiz, sub, calls, now, ticks, ready, config, rate, delayed_members,
                       temp_banned_users, lockDelayed, lockTemp, members, banned, unb, dly>>

\* (faulty variant: the exception is logged inside the try block and the
\* code goes on to the counter)
AfterBan_GoesOn(r, outcome, t) ==
    IF outcome = "ok"
    THEN [r EXCEPT !.pc = "inc_read", !.did = @ \cup {"ban"}, !.banAt = t]
    ELSE [r EXCEPT !.pc = "inc_read", !.did = @ \cup {"banfail"}]

\* The handler after guild.ban has answered at instant t: on to
\* _increment_ban_counter, or (except discord.Forbidden / except Exception)
\* logged and the handler ends.
AfterBan(r, outcome, t) ==
    IF outcome = "ok"
    THEN [r EXCEPT !.pc = "inc_read", !.did = @ \cup {"ban"}, !.banAt = t]
    ELSE Finish([r EXCEPT !.did = @ \cup {"banfail"}])

\* await guild.ban(member, reason=...): on success the member is on the ban
\* list and out of the guild; Forbidden and any other exception are logged
\* and the handler returns.
Join_Ban(u, outcome) ==
    LET r == join[u]
    IN  /\ r.pc = "ban"
        /\ outcome \in {"ok", "forbidden", "notfound", "error"}
        /\ join' = [join EXCEPT ![u] =
               IF outcome = "ok" \/ Catches({"forbidden", "error"}, outcome)
               THEN AfterBan(r, outcome, now)
               ELSE Raise(r)]
        /\ IF outcome = "ok"
           THEN /\ banned' = [banned EXCEPT ![r.g] = @ \cup {u}]
                /\ members' = [members EXCEPT ![r.g] = @ \ {u}]
           ELSE UNCHANGED <<banned, members>>
        /\ UNCHANGED <<wiz, sub, calls, now, ticks, ready, config, rate, delayed_members,
                       temp_banned_users, lockDelayed, lockTemp, unb, dly>>

\* _increment_ban_counter: settings = await ...all();
\* new_count = settings["recent_bans_count"] + 1
Inc_Read(u) ==
    LET r == join[u]
    IN  /\ r.pc = "inc_read"
        /\ join' = [join EXCEPT ![u] =
               [r EXCEPT !.pc = "inc_count",
                         !.cnt = NewCount(rate[RateKey(r.g)].recent_bans_count)]]
        /\ UNCHANGED <<wiz, sub, calls, now, ticks, ready, config, rate, delayed_members,
                       temp_banned_users, lockDelayed, lockTemp, members, banned, unb, dly>>

\* await self.config.guild(guild).recent_bans_count.set(new_count)
Inc_Count(u) ==
    LET r == join[u]
    IN  /\ r.pc = "inc_count"
        /\ rate' = [rate EXCEPT ![RateKey(r.g)].recent_bans_count = r.cnt]
        /\ join' = [join EXCEPT ![u] = [r EXCEPT !.pc = "inc_stamp", !.cnt = 0]]
        /\ UNCHANGED <<wiz, sub, calls, now, ticks, ready, config, delayed_members,
                       temp_banned_users, lockDelayed, lockTemp, members, banned, unb, dly>>

\* await ...last_ban_timestamp.set(discord.utils.utcnow().timestamp()),
\* then back in on_member_join: if settings["ban_type"] == "temporary"
Inc_Stamp(u) ==
    LET r == join[u]
        r1 == [r EXCEPT !.did = @ \cup {"inc"}]
    IN  /\ r.pc = "inc_stamp"
        /\ rate' = [rate EXCEPT ![RateKey(r.g)].last_ban_timestamp = now]
        /\ join' = [join EXCEPT ![u] =
               IF IsTemporary(r.s) THEN [r1 EXCEPT !.pc = "tb_lock"]
               ELSE Finish(r1)]
        /\ UNCHANGED <<wiz, sub, calls, now, ticks, ready, config, delayed_members,
                       temp_banned_users, lockDelayed, lockTemp, members, banned, unb, dly>>

\* async with self.config.guild(guild).temp_banned_users() as temp_banned_users:
\* lock, read, temp_banned_users[str(member.id)] = unban_time.timestamp()
TempBan_Lock(u) ==
    LET r == join[u]
    IN  /\ r.pc = "tb_lock"
        /\ Free(lockTemp, r.g)
        /\ lockTemp' = [lockTemp EXCEPT ![r.g] = TRUE]
        /\ join' = [join EXCEPT ![u] =
               [r EXCEPT !.pc = "tb_write",
                         !.copy = Put(temp_banned_users[r.g], u,
                                      UnbanTime(r.now, r.s))]]
        /\ UNCHANGED <<wiz, sub, calls, now, ticks, ready, config, rate, delayed_members,
                       temp_banned_users, lockDelayed, members, banned, unb, dly>>

\* Leaving the async with block: write back, free the lock; the handler ends.
TempBan_Write(u) ==
    LET r == join[u]
    IN  /\ r.pc = "tb_write"
        /\ temp_banned_users' = [temp_banned_users EXCEPT ![r.g] = r.copy]
        /\ lockTemp' = Release(lockTemp, r.g)
        /\ join' = [join EXCEPT ![u] = Finish([r EXCEPT !.did = @ \cup {"tempban"}])]
        /\ calls' = [calls EXCEPT !["temp"][r.g][u] = 0]
        /\ UNCHANGED <<wiz, sub, now, ticks, ready, config, rate, delayed_members,
                       lockDelayed, members, banned, unb, dly>>

\* ------------------------------------------------------ the two sweeps
\* The sweeps' calls for one ledger entry are counted up to MaxCalls.
Called(c, k, g, u) ==
    [c EXCEPT ![k][g][u] = IF @ < MaxCalls THEN @ + 1 ELSE @]

\* The table of guild g is written back: the count of an entry goes with
\* the entry.
Kept(c, k, g, table) ==
    [c EXCEPT ![k][g] = [u \in Users |-> IF u \in DOMAIN table THEN @[u] ELSE 0]]

\* (faulty variant: an entry is due only after its instant has passed)
Due_Strict(table, t) == {u \in DOMAIN table : t > table[u]}

\* for user_id_str, t in table.items(): if now >= t: due.append(user_id_str)
Due(table, t) == {u \in DOMAIN table : t >= table[u]}

\* A sweep loop between two ticks.  due: the tick's due lists, by guild;
\* todo: the due identities of guild g not yet processed; cur: the identity
\* whose platform call is awaited; copy: the table as read under the lock;
\* tried: the identities of guild g whose ban or unban call this tick made;
\* failed: the <<guild, identity>> whose call raised during this tick;
\* cleared: the <<guild, identity>> that the tick's write-backs have left
\* out of the table; cut: the <<guild, identity>> whose ban or unban call a
\* cancellation interrupted.  pc = "cancelled": the loop's task has ended
\* (its locals are gone).
IdleSweep ==
    [pc |-> "sleep", now |-> 0, due |-> [g \in Guilds |-> {}], g |-> 0,
     todo |-> {}, cur |-> 0, copy |-> EmptyTable, s |-> DefaultConfig,
     tcopy |-> EmptyTable, tried |-> {}, failed |-> {}, cleared |-> {},
     cut |-> {}]

\* for guild_id, data in all_guilds_data.items(): the guilds after g that
\* have something due (the others are passed without an await).
Pending(due, g) == {h \in Guilds : h > g /\ due[h] # {}}
NextGuild(due, g) ==
    CHOOSE h \in Pending(due, g) : \A k \in Pending(due, g) : h <= k

\* (faulty variant: an exception leaves the for loop)
Remaining_AbortOnError(todo, outcome) == IF outcome = "ok" THEN todo ELSE {}

\* The due identities still to come after a call has answered: the
\* exception is caught inside the loop body, the loop goes on.
Remaining(todo, outcome) == todo

\* The <<guild, identity>> pairs of guild g that the table `copy` lacks.
Cleared(w) == {<<w.g, u>> : u \in w.due[w.g] \ DOMAIN w.copy}

\* The loop goes on to the next guild with due entries, or the tick ends.
Onward(w) ==
    IF Pending(w.due, w.g) = {}
    THEN IdleSweep
    ELSE [w EXCEPT !.pc = "lock", !.g = NextGuild(w.due, w.g), !.todo = {},
                   !.cur = 0, !.copy = EmptyTable, !.tried = {}]

\* (faulty variant: the loops start ticking at construction)
MayTick_AtOnce == TRUE

\* before_loop: await self.bot.wait_until_ready() has returned; the loop
\* body runs only after it.
MayTick == ready

\* unban_task, one tick: all_guilds_data = await self.config.all_guilds();
\* now = utcnow().timestamp(); the due lists of every guild.
Unban_Tick ==
    LET due == [g \in Guilds |-> Due(temp_banned_users[g], now)]
    IN  /\ MayTick
        /\ unb.pc = "sleep"
        /\ unb' = Onward([IdleSweep EXCEPT !.now = now, !.due = due])
        /\ UNCHANGED <<wiz, sub, calls, now, ticks, ready, config, rate, delayed_members,
                       temp_banned_users, lockDelayed, lockTemp, members,
                       banned, join, dly>>

\* async with self.config.guild(guild).temp_banned_users() as temp_banned_users:
\* lock and read; the loop over users_to_unban reaches its first unban call.
Unban_Lock(u) ==
    /\ unb.pc = "lock"
    /\ Free(lockTemp, unb.g)
    /\ u \in unb.due[unb.g]
    /\ lockTemp' = [lockTemp EXCEPT ![unb.g] = TRUE]
    /\ unb' = [unb EXCEPT !.pc = "unban", !.copy = temp_banned_users[unb.g],
                          !.todo = unb.due[unb.g] \ {u}, !.cur = u]
    /\ UNCHANGED <<wiz, sub, calls, now, ticks, ready, config, rate, delayed_members,
                   temp_banned_users, lockDelayed, members, banned, join, dly>>

\* await guild.unban(user, reason=...) returns or raises (Forbidden,
\* NotFound, any other exception: logged); finally the entry is deleted from
\* the local table.  Then the next due identity, or the block is left.
Unban_Call(outcome, nxt) ==
    LET rest == Remaining(unb.todo, outcome)
        w == [unb EXCEPT !.copy = Del(unb.copy, unb.cur),
                         !.tried = @ \cup {unb.cur},
                         !.failed = IF outcome = "ok" THEN @
                                    ELSE @ \cup {<<unb.g, unb.cur>>}]
    IN  /\ unb.pc = "unban"
        /\ banned' = IF outcome = "ok"
                     THEN [banned EXCEPT ![unb.g] = @ \ {unb.cur}]
                     ELSE banned
        /\ IF rest = {}
           THEN unb' = [w EXCEPT !.pc = "write", !.cur = 0, !.todo = {}]
           ELSE /\ nxt \in rest
                /\ unb' = [w EXCEPT !.cur = nxt, !.todo = rest \ {nxt}]
        /\ calls' = Called(calls, "temp", unb.g, unb.cur)
        /\ UNCHANGED <<wiz, sub, now, ticks, ready, config, rate, delayed_members,
                       temp_banned_users, lockDelayed, lockTemp, members,
                       join, dly>>

\* Leaving the async with block: the table is written back, the lock freed.
Unban_Write ==
    /\ unb.pc = "write"
    /\ temp_banned_users' = [temp_banned_users EXCEPT ![unb.g] = unb.copy]
    /\ lockTemp' = Release(lockTemp, unb.g)
    /\ unb' = Onward([unb EXCEPT !.cleared = @ \cup Cleared(unb)])
    /\ calls' = Kept(calls, "temp", unb.g, unb.copy)
    /\ UNCHANGED <<wiz, sub, now, ticks, ready, config, rate, delayed_members,
                   lockDelayed, members, banned, join, dly>>

\* The finally clauses of several identities at once.
DelAll(table, A) == [x \in (DOMAIN table) \ A |-> table[x]]

\* (faulty variant: the member is not looked up, every identity is punished)
Absent_NoLookup(w) == {}

\* member = guild.get_member(user_id); if not member: the identities on the
\* list that are not members of the guild now.
Absent(w) == {u \in w.todo : u \notin members[w.g]}

\* The loop over members_to_punish, from the top of one iteration to the
\* next await: identities that guild.get_member does not find are logged and
\* deleted from the local table in passing (no await); the first one found
\* has its settings read awaited; with none left the block is left.  The
\* list's order is the store's, so any order is possible.
Iterate(w) ==
    LET absent == Absent(w)
        present == w.todo \ absent
    IN  {[w EXCEPT !.pc = "pun_read", !.cur = pr[2],
                   !.todo = (w.todo \ pr[1]) \ {pr[2]},
                   !.copy = DelAll(w.copy, pr[1])] :
            pr \in (SUBSET absent) \X present}
        \cup
        (IF present = {}
         THEN {[w EXCEPT !.pc = "write", !.cur = 0, !.todo = {},
                         !.copy = DelAll(w.copy, absent)]}
         ELSE {})

\* delayed_punishment_task, one tick: the snapshot of every guild's table,
\* one reading of the clock, the due lists.
Delayed_Tick ==
    LET due == [g \in Guilds |-> Due(delayed_members[g], now)]
    IN  /\ MayTick
        /\ dly.pc = "sleep"
        /\ dly' = Onward([IdleSweep EXCEPT !.now = now, !.due = due])
        /\ UNCHANGED <<wiz, sub, calls, now, ticks, ready, config, rate, delayed_members,
                       temp_banned_users, lockDelayed, lockTemp, members,
                       banned, join, unb>>

\* async with self.config.guild(guild).delayed_members() as delayed_members_config:
\* lock and read, then the loop starts.
Delayed_Lock ==
    /\ dly.pc = "lock"
    /\ Free(lockDelayed, dly.g)
    /\ lockDelayed' = [lockDelayed EXCEPT ![dly.g] = TRUE]
    /\ dly' \in Iterate([dly EXCEPT !.copy = delayed_members[dly.g],
                                    !.todo = dly.due[dly.g]])
    /\ UNCHANGED <<wiz, sub, calls, now, ticks, ready, config, rate, delayed_members,
                   temp_banned_users, lockTemp, members, banned, join, unb>>

\* (faulty variant: the sweep asks the rate limiter as the join handler does)
SweepHeldBack_ByLimiter(rec, s, t) ==
    RateDecision(rec.last_ban_timestamp, rec.recent_bans_count,
                 s.join_rate_limit, t) = "reject"

\* Between the settings read and the message there is no test: nothing in
\* the rate limiter's record rec or the settings s holds the punishment of
\* a due member back.
SweepHeldBack(rec, s, t) == FALSE

\* settings = await self.config.guild(guild).all(); the DM is composed and
\* its send awaited.
Delayed_Read ==
    /\ dly.pc = "pun_read"
    /\ dly' \in IF SweepHeldBack(rate[RateKey(dly.g)], config[dly.g], now)
               THEN Iterate([dly EXCEPT !.copy = Del(dly.copy, dly.cur)])
               ELSE {[dly EXCEPT !.pc = "pun_dm", !.s = config[dly.g]]}
    /\ UNCHANGED <<wiz, sub, calls, now, ticks, ready, config, rate, delayed_members,
                   temp_banned_users, lockDelayed, lockTemp, members, banned,
                   join, unb>>

\* await member.send(dm_message); Forbidden and HTTPException are passed over.
Delayed_DM(outcome) ==
    /\ dly.pc = "pun_dm"
    /\ outcome \in {"ok", "forbidden", "http"}
    /\ dly' \in AfterSend(outcome,
                       {[dly EXCEPT !.pc = "pun_ban"]},
                       Iterate([dly EXCEPT !.copy = Del(dly.copy, dly.cur),
                                           !.s = DefaultConfig]))
    /\ UNCHANGED <<wiz, sub, calls, now, ticks, ready, config, rate, delayed_members,
                   temp_banned_users, lockDelayed, lockTemp, members, banned,
                   join, unb>>

\* await guild.ban(member, reason=...).  On success a temporary ban goes on
\* to the temp_banned_users block; otherwise (and on Forbidden or any other
\* exception) the finally clause deletes the entry and the loop goes on.
Delayed_Ban(outcome) ==
    LET w == [dly EXCEPT !.tried = @ \cup {dly.cur},
                         !.failed = IF outcome = "ok" THEN @
                                    ELSE @ \cup {<<dly.g, dly.cur>>}]
        fin == [w EXCEPT !.copy = Del(w.copy, w.cur), !.s = DefaultConfig,
                         !.todo = Remaining(w.todo, outcome)]
    IN  /\ dly.pc = "pun_ban"
        /\ IF outcome = "ok"
           THEN /\ banned' = [banned EXCEPT ![dly.g] = @ \cup {dly.cur}]
                /\ members' = [members EXCEPT ![dly.g] = @ \ {dly.cur}]
                /\ IF IsTemporary(dly.s)
                   THEN dly' = [w EXCEPT !.pc = "pun_tb_lock"]
                   ELSE dly' \in Iterate(fin)
           ELSE /\ dly' \in Iterate(fin)
                /\ UNCHANGED <<banned, members>>
        /\ calls' = Called(calls, "delayed", dly.g, dly.cur)
        /\ UNCHANGED <<wiz, sub, now, ticks, ready, config, rate, delayed_members,
                       temp_banned_users, lockDelayed, lockTemp, join, unb>>

\* unban_time = utcnow() + timedelta(seconds=...); async with
\* ...temp_banned_users(): lock, read, set the entry in the local copy.
Delayed_TempBan_Lock ==
    /\ dly.pc = "pun_tb_lock"
    /\ Free(lockTemp, dly.g)
    /\ lockTemp' = [lockTemp EXCEPT ![dly.g] = TRUE]
    /\ dly' = [dly EXCEPT !.pc = "pun_tb_write",
                          !.tcopy = Put(temp_banned_users[dly.g], dly.cur,
                                        UnbanTime(now, dly.s))]
    /\ UNCHANGED <<wiz, sub, calls, now, ticks, ready, config, rate, delayed_members,
                   temp_banned_users, lockDelayed, members, banned, join, unb>>

\* Leaving the inner block: write back, free the lock; the finally clause
\* deletes the delayed entry from the local table and the loop goes on.
Delayed_TempBan_Write ==
    /\ dly.pc = "pun_tb_write"
    /\ temp_banned_users' = [temp_banned_users EXCEPT ![dly.g] = dly.tcopy]
    /\ lockTemp' = Release(lockTemp, dly.g)
    /\ dly' \in Iterate([dly EXCEPT !.copy = Del(dly.copy, dly.cur),
                                    !.tcopy = EmptyTable, !.s = DefaultConfig])
    /\ calls' = [calls EXCEPT !["temp"][dly.g][dly.cur] = 0]
    /\ UNCHANGED <<wiz, sub, now, ticks, ready, config, rate, delayed_members,
                   lockDelayed, members, banned, join, unb>>

\* Leaving the outer block: delayed_members is written back, the lock freed.
Delayed_Write ==
    /\ dly.pc = "write"
    /\ delayed_members' = [delayed_members EXCEPT ![dly.g] = dly.copy]
    /\ lockDelayed' = Release(lockDelayed, dly.g)
    /\ dly' = Onward([dly EXCEPT !.cleared = @ \cup Cleared(dly)])
    /\ calls' = Kept(calls, "delayed", dly.g, dly.copy)
    /\ UNCHANGED <<wiz, sub, now, ticks, ready, config, rate, temp_banned_users,
                   lockTemp, members, banned, join, unb>>

\* ------------------------------------------------------ unloading
\* The stores and the platform's state that a cancelled tick still touches.
Stores ==
    [temp |-> temp_banned_users, delayed |-> delayed_members,
     lockT |-> lockTemp, lockD |-> lockDelayed,
     banned |-> banned, members |-> members]

\* self.unban_task.cancel(): CancelledError is raised at the await where
\* the task is suspended.  Between two ticks, before the connection is
\* ready, or waiting for the value lock: the task just ends.  At await
\* guild.unban(...): no except clause matches (CancelledError is not an
\* Exception), the finally clause deletes the entry, the async with block
\* is left with the table written back and the lock freed; the request may
\* or may not have reached the platform (landed).  At the write-back
\* itself: the write is interrupted, done or not (written); the lock is
\* freed.
CancelUnban(st, w, landed, written) ==
    LET off == [IdleSweep EXCEPT !.pc = "cancelled"]
    IN  CASE w.pc = "unban" ->
               [st |-> [st EXCEPT !.temp[w.g] = Del(w.copy, w.cur),
                                  !.lockT[w.g] = FALSE,
                                  !.banned[w.g] = IF landed THEN @ \ {w.cur}
                                                  ELSE @],
                w |-> [off EXCEPT !.cut = {<<w.g, w.cur>>}]]
          [] w.pc = "write" ->
               [st |-> [st EXCEPT !.temp[w.g] = IF written THEN w.copy ELSE @,
                                  !.lockT[w.g] = FALSE],
                w |-> off]
          [] OTHER -> [st |-> st, w |-> off]

\* self.delayed_punishment_task.cancel().  At await ...all() or await
\* member.send(...): the finally clause deletes the entry, the block is
\* left with the table written back, no ban call was made.  At await
\* guild.ban(...): the same, the request having reached the platform or
\* not; the temp_banned_users entry of a temporary ban is not written.
\* Waiting for the temp_banned_users lock: the ban is done, its entry is
\* not written.  At the inner write-back: that write is interrupted (done
\* or not), then the finally clause and the outer write-back.  At the outer
\* write-back: the write is interrupted, done or not.
CancelDelayed(st, w, landed, written) ==
    LET off == [IdleSweep EXCEPT !.pc = "cancelled"]
        fin == Del(w.copy, w.cur)
        out == [st EXCEPT !.delayed[w.g] = fin, !.lockD[w.g] = FALSE]
    IN  CASE w.pc \in {"pun_read", "pun_dm", "pun_tb_lock"} ->
               [st |-> out, w |-> off]
          [] w.pc = "pun_ban" ->
               [st |-> [out EXCEPT
                          !.banned[w.g] = IF landed THEN @ \cup {w.cur} ELSE @,
                          !.members[w.g] = IF landed THEN @ \ {w.cur} ELSE @],
                w |-> [off EXCEPT !.cut = {<<w.g, w.cur>>}]]
          [] w.pc = "pun_tb_write" ->
               [st |-> [out EXCEPT !.temp[w.g] = IF written THEN w.tcopy ELSE @,
                                   !.lockT[w.g] = FALSE],
                w |-> off]
          [] w.pc = "write" ->
               [st |-> [st EXCEPT !.delayed[w.g] = IF written THEN w.copy ELSE @,
                                  !.lockD[w.g] = FALSE],
                w |-> off]
          [] OTHER -> [st |-> st, w |-> off]

\* cog_unload: both tasks are cancelled, one after the other, with no await
\* in between.  ul, dl: the interrupted unban or ban request has reached
\* the platform; uw, dw: the interrupted write-back was done (each is a
\* choice only where the task is at that await).
CogUnload(ul, uw, dl, dw) ==
    LET a == CancelUnban(Stores, unb, ul, uw)
        b == CancelDelayed(a.st, dly, dl, dw)
    IN  /\ unb.pc # "cancelled"
        /\ ul => unb.pc = "unban"
        /\ uw => unb.pc = "write"
        /\ dl => dly.pc = "pun_ban"
        /\ dw => dly.pc \in {"pun_tb_write", "write"}
        /\ unb' = a.w
        /\ dly' = b.w
        /\ temp_banned_users' = b.st.temp
        /\ delayed_members' = b.st.delayed
        /\ lockTemp' = b.st.lockT
        /\ lockDelayed' = b.st.lockD
        /\ banned' = b.st.banned
        /\ members' = b.st.members
        /\ calls' = [k \in {"delayed", "temp"} |-> [g \in Guilds |->
                       Kept(calls, k, g, IF k = "temp" THEN b.st.temp[g]
                                         ELSE b.st.delayed[g])[k][g]]]
        /\ UNCHANGED <<wiz, sub, now, ticks, ready, config, rate, join>>

\* ------------------------------------------------------ environment
\* bot.wait_until_ready() returns: the connection is established.
BotReady ==
    /\ ~ready
    /\ ready' = TRUE
    /\ UNCHANGED <<wiz, sub, calls, now, ticks, config, rate, delayed_members,
                   temp_banned_users, lockDelayed, lockTemp, members, banned,
                   join, unb, dly>>

\* Wall-clock time passes.
Advance(d) ==
    /\ ticks < MaxTicks
    /\ now' = now + d
    /\ ticks' = ticks + 1
    /\ UNCHANGED <<wiz, sub, calls, ready, config, rate, delayed_members, temp_banned_users,
                   lockDelayed, lockTemp, members, banned, join, unb, dly>>

\* A member leaves the guild of their own accord.
MemberLeave(u, g) ==
    /\ u \in members[g]
    /\ members' = [members EXCEPT ![g] = @ \ {u}]
    /\ UNCHANGED <<wiz, sub, calls, now, ticks, ready, config, rate, delayed_members,
                   temp_banned_users, lockDelayed, lockTemp, banned, join,
                   unb, dly>>

\* agegateset toggle: enabled is set to on_or_off, or flipped when omitted.
Toggle(g, on_or_off) ==
    /\ on_or_off \in {"none", "on", "off"}
    /\ config' = [config EXCEPT ![g].enabled =
           IF on_or_off = "none" THEN ~config[g].enabled ELSE on_or_off = "on"]
    /\ UNCHANGED <<wiz, sub, calls, now, ticks, ready, rate, delayed_members,
                   temp_banned_users, lockDelayed, lockTemp, members, banned,
                   join, unb, dly>>

\* ------------------------------------------------------ settings modals
\* A text field holds a sequence of characters.
Digits == {"0", "1", "2", "3", "4", "5", "6", "7", "8", "9"}
DigitVal(c) ==
    CASE c = "0" -> 0 [] c = "1" -> 1 [] c = "2" -> 2 [] c = "3" -> 3
      [] c = "4" -> 4 [] c = "5" -> 5 [] c = "6" -> 6 [] c = "7" -> 7
      [] c = "8" -> 8 [] c = "9" -> 9

IsDigits(t) == Len(t) >= 1 /\ \A i \in 1..Len(t) : t[i] \in Digits

RECURSIVE Value(_)
Value(t) ==
    IF Len(t) = 0 THEN 0
    ELSE Value(SubSeq(t, 1, Len(t) - 1)) * 10 + DigitVal(t[Len(t)])

\* int(text) returns (an optional sign, then digits); otherwise ValueError.
IsInt(t) ==
    \/ IsDigits(t)
    \/ Len(t) >= 2 /\ t[1] = "-" /\ IsDigits(Tail(t))

IntOf(t) == IF t[1] = "-" THEN 0 - Value(Tail(t)) ELSE Value(t)

\* int(self.hours.value) if self.hours.value else 0
IsIntOrEmpty(t) == t = <<>> \/ IsInt(t)
IntOrZero(t) == IF t = <<>> THEN 0 ELSE IntOf(t)

\* str.lower() on the words the choice fields are given here.
Lower(w) ==
    CASE w = "BAN" -> "ban"
      [] w = "Delay" -> "delay"
      [] w = "Notify" -> "notify"
      [] w = "Permanent" -> "permanent"
      [] w = "TEMPORARY" -> "temporary"
      [] OTHER -> w

\* (faulty variant: zero days of temporary ban pass)
TempBanOk_ZeroDays(days, hours) == ~(days < 0 \/ hours < 0 \/ hours > 23)

\* if days <= 0 or hours < 0 or hours > 23: rejected
TempBanOk(days, hours) == ~(days <= 0 \/ hours < 0 \/ hours > 23)

\* if days < 0 or hours < 0 or hours > 23: rejected
MinAgeOk(days, hours) == ~(days < 0 \/ hours < 0 \/ hours > 23)

\* if hours <= 0 or minutes < 0 or minutes > 59: rejected
DelayOk(hours, minutes) == ~(hours <= 0 \/ minutes < 0 \/ minutes > 59)

\* if rate <= 0: rejected
RateOk(n) == ~(n <= 0)

\* if action not in ["ban", "delay", "notify"]: rejected
ActionOk(action) == action \in {"ban", "delay", "notify"}

\* if ban_type not in ["permanent", "temporary"]: rejected
BanTypeOk(ban_type) == ban_type \in {"permanent", "temporary"}

\* No modal's on_submit is under way.
NoSubmission == [field |-> "none", g |-> 0, a |-> <<>>, b |-> <<>>, word |-> ""]

\* What a modal's on_submit leaves alone.
SubmitFrame ==
    UNCHANGED <<calls, now, ticks, ready, rate, delayed_members,
                temp_banned_users, lockDelayed, lockTemp, members, banned,
                join, unb, dly>>

\* on_submit of the modal as typed in s has stored its setting (it has not
\* returned from the range checks, the membership test or except ValueError).
Accepted(s) ==
    CASE s.field = "min_age" ->
             IsInt(s.a) /\ IsIntOrEmpty(s.b) /\ MinAgeOk(IntOf(s.a), IntOrZero(s.b))
      [] s.field = "temp_ban" ->
             IsInt(s.a) /\ IsIntOrEmpty(s.b) /\ TempBanOk(IntOf(s.a), IntOrZero(s.b))
      [] s.field = "delay" ->
             IsInt(s.a) /\ IsIntOrEmpty(s.b) /\ DelayOk(IntOf(s.a), IntOrZero(s.b))
      [] s.field = "rate" -> IsInt(s.a) /\ RateOk(IntOf(s.a))
      [] s.field = "action" -> ActionOk(Lower(s.word))
      [] s.field = "ban_type" -> BanTypeOk(Lower(s.word))
      [] s.field = "ban_reason" -> TRUE
      [] OTHER -> FALSE

\* configure_agegate's list of modals, in its order.
modals ==
    <<"min_age", "ban_reason", "action", "ban_type", "temp_ban", "delay", "rate">>

\* The place of a modal in the list, 0 for none.
ModalIndex(field) ==
    IF \E k \in 1..Len(modals) : modals[k] = field
    THEN CHOOSE k \in 1..Len(modals) : modals[k] = field
    ELSE 0

\* No run of agegateset configure.  step: the closure's counter; shown: the
\* place in the list of the modal now before the admin (0: none); summary:
\* the completion embed has been sent.
NoWizard == [pc |-> "off", step |-> 0, shown |-> 0, summary |-> FALSE]

\* show_modal(): below len(modals) the modal of the step is sent with
\* ctx.interaction.response.send_modal at step 0 only (the other steps
\* pass); at len(modals) the summary embed is sent.  interaction: the
\* command's context has an interaction (without one the attribute access
\* raises).
show_modal(w, interaction) ==
    IF w.step < Len(modals)
    THEN IF w.step = 0
         THEN IF interaction THEN [w EXCEPT !.pc = "on", !.shown = 1]
              ELSE [w EXCEPT !.pc = "raised", !.shown = 0]
         ELSE [w EXCEPT !.shown = 0]
    ELSE [w EXCEPT !.summary = TRUE, !.shown = 0]

\* next_step(interaction): step += 1; await show_modal()
next_step(w) == show_modal([w EXCEPT !.step = @ + 1], TRUE)

\* agegateset configure: step = 0; await show_modal()
Configure(interaction) ==
    /\ wiz = NoWizard
    /\ sub = NoSubmission
    /\ wiz' = show_modal(NoWizard, interaction)
    /\ UNCHANGED <<sub, config>>
    /\ SubmitFrame

\* await interaction.response.send_message(...) returns: on_submit ends, or,
\* for a modal of the wizard that stored its setting, goes on to
\* self.callback(interaction).  The submitted modal is off the screen.
SubmitDone ==
    /\ sub # NoSubmission
    /\ sub' = NoSubmission
    /\ wiz' = IF wiz.shown # 0 /\ wiz.shown = ModalIndex(sub.field)
              THEN IF Accepted(sub) THEN next_step([wiz EXCEPT !.shown = 0])
                   ELSE [wiz EXCEPT !.shown = 0]
              ELSE wiz
    /\ UNCHANGED config
    /\ SubmitFrame

\* BanReasonModal.on_submit: the reason is stored as typed (the text is not
\* part of the guild record kept here).
SubmitBanReason(g) ==
    /\ sub = NoSubmission
    /\ sub' = [NoSubmission EXCEPT !.field = "ban_reason", !.g = g]
    /\ UNCHANGED <<config, wiz>>
    /\ SubmitFrame

\* MinAgeModal.on_submit with the fields as typed: the checks and, when they
\* pass, the write to the store; the answer to the admin is still to send.
SubmitMinAge(g, a, b) ==
    /\ sub = NoSubmission
    /\ sub' = [NoSubmission EXCEPT !.field = "min_age", !.g = g, !.a = a, !.b = b]
    /\ config' =
         IF IsInt(a) /\ IsIntOrEmpty(b) /\ MinAgeOk(IntOf(a), IntOrZero(b))
         THEN [config EXCEPT ![g].min_age_seconds =
                                 IntOf(a) * 86400 + IntOrZero(b) * 3600]
         ELSE config
    /\ UNCHANGED wiz
    /\ SubmitFrame

\* TempBanDurationModal.on_submit
SubmitTempBanDuration(g, a, b) ==
    /\ sub = NoSubmission
    /\ sub' = [NoSubmission EXCEPT !.field = "temp_ban", !.g = g, !.a = a, !.b = b]
    /\ config' =
         IF IsInt(a) /\ IsIntOrEmpty(b) /\ TempBanOk(IntOf(a), IntOrZero(b))
         THEN [config EXCEPT ![g].temp_ban_duration_seconds =
                                 IntOf(a) * 86400 + IntOrZero(b) * 3600]
         ELSE config
    /\ UNCHANGED wiz
    /\ SubmitFrame

\* DelayDurationModal.on_submit
SubmitDelayDuration(g, a, b) ==
    /\ sub = NoSubmission
    /\ sub' = [NoSubmission EXCEPT !.field = "delay", !.g = g, !.a = a, !.b = b]
    /\ config' =
         IF IsInt(a) /\ IsIntOrEmpty(b) /\ DelayOk(IntOf(a), IntOrZero(b))
         THEN [config EXCEPT ![g].delay_punishment_seconds =
                                 IntOf(a) * 3600 + IntOrZero(b) * 60]
         ELSE config
    /\ UNCHANGED wiz
    /\ SubmitFrame

\* RateLimitModal.on_submit
SubmitRateLimit(g, a) ==
    /\ sub = NoSubmission
    /\ sub' = [NoSubmission EXCEPT !.field = "rate", !.g = g, !.a = a]
    /\ config' =
         IF IsInt(a) /\ RateOk(IntOf(a))
         THEN [config EXCEPT ![g].join_rate_limit = IntOf(a)]
         ELSE config
    /\ UNCHANGED wiz
    /\ SubmitFrame

\* ActionTypeModal.on_submit
SubmitActionType(g, w) ==
    /\ sub = NoSubmission
    /\ sub' = [NoSubmission EXCEPT !.field = "action", !.g = g, !.word = w]
    /\ config' =
         IF ActionOk(Lower(w))
         THEN [config EXCEPT ![g].action_type = Lower(w)]
         ELSE config
    /\ UNCHANGED wiz
    /\ SubmitFrame

\* BanTypeModal.on_submit
SubmitBanType(g, w) ==
    /\ sub = NoSubmission
    /\ sub' = [NoSubmission EXCEPT !.field = "ban_type", !.g = g, !.word = w]
    /\ config' =
         IF BanTypeOk(Lower(w))
         THEN [config EXCEPT ![g].ban_type = Lower(w)]
         ELSE config
    /\ UNCHANGED wiz
    /\ SubmitFrame

\* ------------------------------------------------------ specifications
\* Outcomes of the platform calls.
DmOutcomes == {"ok", "forbidden", "http"}
BanOutcomes == {"ok", "forbidden", "notfound", "error"}
ChannelAnswers == {"ok", "invalid", "noperm"}
SendOutcomes == {"ok", "forbidden", "error"}

\* The state after __init__: the guild records are what the Config store
\* holds (register_guild supplies the defaults of the keys never set), the
\* loops are started and wait for the connection, no handler runs.  Guild 1
\* holds a record out of `cfgs`, the other guilds the defaults.
InitRest ==
    /\ now = StartTime
    /\ ticks = 0
    /\ ready = FALSE
    /\ rate = [g \in Guilds |-> DefaultRate]
    /\ delayed_members = [g \in Guilds |-> EmptyTable]
    /\ temp_banned_users = [g \in Guilds |-> EmptyTable]
    /\ lockDelayed = [g \in Guilds |-> FALSE]
    /\ lockTemp = [g \in Guilds |-> FALSE]
    /\ members = [g \in Guilds |-> {}]
    /\ banned = [g \in Guilds |-> {}]
    /\ join = [u \in Users |-> IdleJoin]
    /\ unb = IdleSweep
    /\ dly = IdleSweep
    /\ calls = [k \in {"delayed", "temp"} |-> [g \in Guilds |-> [u \in Users |-> 0]]]
    /\ sub = NoSubmission
    /\ wiz = NoWizard

InitWith(cfgs) ==
    /\ config \in {[g \in Guilds |-> IF g = 1 THEN c ELSE DefaultConfig] : c \in cfgs}
    /\ InitRest

\* Account ages at the join: just too new, and exactly min_age.
Ages == {DefaultMinAge - 1, DefaultMinAge}

\* The steps of the on_member_join handlers: the evaluation, the staff
\* notification, the delayed path, the immediate ban with the rate limiter.
EvalSteps ==
    \E u \in Users, a \in Ages : OnJoin_Read(u, now - a)

NotifySteps ==
    \E u \in Users :
        \/ \E c \in ChannelAnswers : Notify_Read(u, c)
        \/ \E o \in SendOutcomes : Notify_Send(u, o)

DelaySteps ==
    \E u \in Users :
        \/ Delay_Lock(u)
        \/ Delay_Write(u)

BanSteps ==
    \E u \in Users :
        \/ RateLimit_Read(u)
        \/ RateLimit_Zero(u)
        \/ RateLimit_Stamp(u)
        \/ \E o \in DmOutcomes : Join_DM(u, o)
        \/ \E o \in BanOutcomes : Join_Ban(u, o)
        \/ Inc_Read(u)
        \/ Inc_Count(u)
        \/ Inc_Stamp(u)

TempBanSteps ==
    \E u \in Users :
        \/ TempBan_Lock(u)
        \/ TempBan_Write(u)

JoinSteps ==
    \/ EvalSteps
    \/ NotifySteps
    \/ DelaySteps
    \/ BanSteps
    \/ TempBanSteps

\* The steps of the two sweep loops.
SweepSteps ==
    \/ BotReady
    \/ Unban_Tick
    \/ \E u \in Users : Unban_Lock(u)
    \/ \E o \in BanOutcomes, u \in Users : Unban_Call(o, u)
    \/ Unban_Write
    \/ Delayed_Tick
    \/ Delayed_Lock
    \/ Delayed_Read
    \/ \E o \in DmOutcomes : Delayed_DM(o)
    \/ \E o \in BanOutcomes : Delayed_Ban(o)
    \/ Delayed_TempBan_Lock
    \/ Delayed_TempBan_Write
    \/ Delayed_Write

\* No on_member_join handler is between its first and its last await.
Quiet == \A u \in Users : join[u].pc \in {"idle", "done"}

\* The guild records the store may hold for guild 1 (channel 0: no staff
\* channel configured).
Configs(actions, bantypes, limits, channels) ==
    {[DefaultConfig EXCEPT !.enabled = TRUE, !.action_type = a, !.ban_type = b,
                           !.temp_ban_duration_seconds = DaySeconds,
                           !.join_rate_limit = l,
                           !.staff_notification_channel_id = c] :
        a \in actions, b \in bantypes, l \in limits, c \in channels}

\* Spec: joins handled one after another, every action type, the clock
\* moving in steps that reach 59, 60 and 61 seconds.
Init ==
    InitWith(Configs({"ban"}, {"permanent", "temporary"}, 1..MaxRateLimit, {0})
             \cup Configs({"delay", "notify"}, {"permanent"},
                          {DefaultRateLimit}, {0, 1}))

Next ==
    \/ \E u \in Users : Quiet /\ MemberJoin(u, 1)
    \/ JoinSteps
    \/ \E d \in {1, 59, 60} : Advance(d)
    \/ Toggle(1, "none")

Spec == Init /\ [][Next]_vars

\* SpecRace: immediate bans handled concurrently, every interleaving of the
\* handlers at their awaits.
InitRace == InitWith(Configs({"ban"}, {"permanent"}, 1..MaxRateLimit, {0}))

NextRace ==
    \/ \E u \in Users : MemberJoin(u, 1)
    \/ EvalSteps
    \/ BanSteps
    \/ \E d \in {61} : Advance(d)

SpecRace == InitRace /\ [][NextRace]_vars

\* SpecSweep: the two sweeps running beside the join handling, members with
\* a pending punishment leaving, the clock moving by days.
InitSweep ==
    InitWith(Configs({"delay"}, {"permanent", "temporary"},
                     {DefaultRateLimit}, {1})
             \cup Configs({"ban"}, {"temporary"}, {DefaultRateLimit}, {0}))

NextSweep ==
    \/ \E u \in Users : Quiet /\ MemberJoin(u, 1)
    \/ JoinSteps
    \/ SweepSteps
    \/ \E d \in {DaySeconds} : Advance(d)
    \/ \E u \in DOMAIN delayed_members[1] : MemberLeave(u, 1)

SpecSweep == InitSweep /\ [][NextSweep]_vars

\* SpecLive: the delayed path alone, with the scheduling the loop and the
\* store give: the connection gets ready, the loop keeps ticking, every
\* platform call and store access returns (weak fairness), and a waiter on
\* a value lock gets it when it is released again and again (asyncio.Lock
\* wakes its waiters in turn: strong fairness).
InitLive ==
    InitWith(Configs({"delay"}, {"permanent", "temporary"},
                     {DefaultRateLimit}, {1}))

DelayedSweepSteps ==
    \/ BotReady
    \/ Delayed_Tick
    \/ Delayed_Lock
    \/ Delayed_Read
    \/ \E o \in DmOutcomes : Delayed_DM(o)
    \/ \E o \in BanOutcomes : Delayed_Ban(o)
    \/ Delayed_TempBan_Lock
    \/ Delayed_TempBan_Write
    \/ Delayed_Write

NextLive ==
    \/ \E u \in Users : Quiet /\ MemberJoin(u, 1)
    \/ EvalSteps
    \/ DelaySteps
    \/ NotifySteps
    \/ DelayedSweepSteps
    \/ \E d \in {DaySeconds} : Advance(d)
    \/ \E u \in DOMAIN delayed_members[1] : MemberLeave(u, 1)

FairLive ==
    /\ WF_vars(BotReady)
    /\ WF_vars(Delayed_Tick)
    /\ SF_vars(Delayed_Lock)
    /\ WF_vars(Delayed_Read)
    /\ WF_vars(\E o \in DmOutcomes : Delayed_DM(o))
    /\ WF_vars(\E o \in BanOutcomes : Delayed_Ban(o))
    /\ SF_vars(Delayed_TempBan_Lock)
    /\ WF_vars(Delayed_TempBan_Write)
    /\ WF_vars(Delayed_Write)
    /\ \A u \in Users : WF_vars(Delay_Write(u))

SpecLive == InitLive /\ [][NextLive]_vars /\ FairLive

\* SpecLift: immediate temporary bans and the unban sweep, with the same
\* scheduling as SpecLive: the loop keeps ticking, awaited calls return, a
\* waiter on the temp_banned_users lock gets it in turn.
InitLift ==
    InitWith(Configs({"ban"}, {"temporary"}, {DefaultRateLimit}, {0}))

UnbanSweepSteps ==
    \/ BotReady
    \/ Unban_Tick
    \/ \E u \in Users : Unban_Lock(u)
    \/ \E o \in BanOutcomes, u \in Users : Unban_Call(o, u)
    \/ Unban_Write

NextLift ==
    \/ \E u \in Users : Quiet /\ MemberJoin(u, 1)
    \/ EvalSteps
    \/ BanSteps
    \/ TempBanSteps
    \/ UnbanSweepSteps
    \/ \E d \in {DaySeconds} : Advance(d)

FairLift ==
    /\ WF_vars(BotReady)
    /\ WF_vars(Unban_Tick)
    /\ SF_vars(\E u \in Users : Unban_Lock(u))
    /\ WF_vars(\E o \in BanOutcomes, u \in Users : Unban_Call(o, u))
    /\ WF_vars(Unban_Write)
    /\ \A u \in Users : WF_vars(TempBan_Write(u))

SpecLift == InitLift /\ [][NextLift]_vars /\ FairLift

\* No sweep is inside a tick.
Asleep == unb.pc = "sleep" /\ dly.pc = "sleep"

\* SpecGuilds: every guild enabled, members joining any guild, both sweeps
\* going over all guilds, the clock moving by days; the joins and the ticks
\* are handled one at a time (a tick starts when no handler runs, a join is
\* taken up when no tick runs).
InitGuilds ==
    /\ config \in {[g \in Guilds |-> c] :
                      c \in Configs({"delay"}, {"temporary"}, {1}, {0})
                            \cup Configs({"ban"}, {"temporary"}, {1}, {0})}
    /\ InitRest

NextGuilds ==
    \/ \E u \in Users, g \in Guilds : Quiet /\ Asleep /\ MemberJoin(u, g)
    \/ EvalSteps
    \/ DelaySteps
    \/ \E u \in Users, c \in ChannelAnswers : Notify_Read(u, c)
    \/ BanSteps
    \/ TempBanSteps
    \/ BotReady
    \/ Quiet /\ Unban_Tick
    \/ Quiet /\ Delayed_Tick
    \/ \E u \in Users : Unban_Lock(u)
    \/ \E o \in BanOutcomes, u \in Users : Unban_Call(o, u)
    \/ Unban_Write
    \/ Delayed_Lock
    \/ Delayed_Read
    \/ \E o \in DmOutcomes : Delayed_DM(o)
    \/ \E o \in BanOutcomes : Delayed_Ban(o)
    \/ Delayed_TempBan_Lock
    \/ Delayed_TempBan_Write
    \/ Delayed_Write
    \/ \E d \in {DaySeconds} : Advance(d)

SpecGuilds == InitGuilds /\ [][NextGuilds]_vars

\* SpecScope: SpecGuilds over one day, with the feature toggled in any
\* guild at any moment.
InitScope == InitGuilds

NextScope ==
    \/ \E u \in Users, g \in Guilds : Quiet /\ Asleep /\ MemberJoin(u, g)
    \/ EvalSteps
    \/ DelaySteps
    \/ \E u \in Users, c \in ChannelAnswers : Notify_Read(u, c)
    \/ BanSteps
    \/ TempBanSteps
    \/ BotReady
    \/ Quiet /\ Unban_Tick
    \/ Quiet /\ Delayed_Tick
    \/ \E u \in Users : Unban_Lock(u)
    \/ \E o \in BanOutcomes, u \in Users : Unban_Call(o, u)
    \/ Unban_Write
    \/ Delayed_Lock
    \/ Delayed_Read
    \/ \E o \in DmOutcomes : Delayed_DM(o)
    \/ \E o \in BanOutcomes : Delayed_Ban(o)
    \/ Delayed_TempBan_Lock
    \/ Delayed_TempBan_Write
    \/ Delayed_Write
    \/ \E d \in {DaySeconds} : ticks = 0 /\ Advance(d)
    \/ \E g \in Guilds : Toggle(g, "none")

SpecScope == InitScope /\ [][NextScope]_vars

\* The texts typed into the number fields: nothing, numbers in and out of
\* range, a negative number, letters.
Texts ==
    {<<>>, <<"0">>, <<"1">>, <<"6", "0">>, <<"-", "1">>, <<"a">>}

\* The words typed into the choice fields.
ActionWords == {"ban", "Delay", "notify", "kick", "permanent"}
BanTypeWords == {"permanent", "TEMPORARY", "forever", "ban"}

\* SpecConfig: the settings modals of guild 1 submitted in any order with
\* any of the texts, one submission handled at a time.
InitConfig == InitWith({DefaultConfig})

NextConfig ==
    \/ \E a, b \in Texts : SubmitMinAge(1, a, b)
    \/ \E a, b \in Texts : SubmitTempBanDuration(1, a, b)
    \/ \E a, b \in Texts : SubmitDelayDuration(1, a, b)
    \/ \E a \in Texts : SubmitRateLimit(1, a)
    \/ \E w \in ActionWords : SubmitActionType(1, w)
    \/ \E w \in BanTypeWords : SubmitBanType(1, w)
    \/ SubmitDone

SpecConfig == InitConfig /\ [][NextConfig]_vars

\* SpecLimit: a guild that bans at once, with a limit of one ban a minute,
\* and is switched to delayed punishment and back between the ticks; the
\* delayed sweep then runs with whatever the limiter's record holds.
InitLimit == InitWith(Configs({"ban"}, {"permanent", "temporary"}, {1}, {0}))

NextLimit ==
    \/ \E u \in Users : Quiet /\ MemberJoin(u, 1)
    \/ EvalSteps
    \/ DelaySteps
    \/ \E u \in Users, c \in ChannelAnswers : Notify_Read(u, c)
    \/ BanSteps
    \/ TempBanSteps
    \/ DelayedSweepSteps
    \/ \E d \in {DaySeconds} : Advance(d)
    \/ \E w \in {"ban", "Delay"} :
          Quiet /\ dly.pc = "sleep" /\ SubmitActionType(1, w)
    \/ SubmitDone

SpecLimit == InitLimit /\ [][NextLimit]_vars

\* SpecWizard: one run of agegateset configure beside the settings modals
\* of guild 1, one submission handled at a time.
InitWizard == InitConfig

NextWizard ==
    \/ \E i \in BOOLEAN : Configure(i)
    \/ \E a, b \in Texts : SubmitMinAge(1, a, b)
    \/ SubmitBanReason(1)
    \/ \E w \in ActionWords : SubmitActionType(1, w)
    \/ \E w \in BanTypeWords : SubmitBanType(1, w)
    \/ \E a, b \in Texts : SubmitTempBanDuration(1, a, b)
    \/ \E a, b \in Texts : SubmitDelayDuration(1, a, b)
    \/ \E a \in Texts : SubmitRateLimit(1, a)
    \/ SubmitDone

SpecWizard == InitWizard /\ [][NextWizard]_vars

\* SpecStuck: SpecLive's steps with the scheduling of a platform whose calls
\* may never answer: the loop keeps ticking, every store access returns and
\* a waiter on a value lock gets it in turn, the join handlers' own awaits
\* return, but nothing makes the sweep's member.send or guild.ban return.
InitStuck == InitLive

NextStuck == NextLive

FairStuck ==
    /\ WF_vars(BotReady)
    /\ WF_vars(Delayed_Tick)
    /\ SF_vars(Delayed_Lock)
    /\ WF_vars(Delayed_Read)
    /\ SF_vars(Delayed_TempBan_Lock)
    /\ WF_vars(Delayed_TempBan_Write)
    /\ WF_vars(Delayed_Write)
    /\ WF_vars(EvalSteps)
    /\ WF_vars(NotifySteps)
    /\ \A u \in Users : SF_vars(Delay_Lock(u)) /\ WF_vars(Delay_Write(u))

SpecStuck == InitStuck /\ [][NextStuck]_vars /\ FairStuck

\* SpecGate: the delayed path with agegateset toggle given between the
\* ticks, when no join is being handled: the flag a tick starts with is the
\* flag it ends with.
InitGate == InitLive

NextGate ==
    \/ NextLive
    \/ \E w \in {"none", "on", "off"} : Quiet /\ dly.pc = "sleep" /\ Toggle(1, w)

SpecGate == InitGate /\ [][NextGate]_vars

\* The module is loaded: its listener and its loops are registered.
Loaded == unb.pc # "cancelled"

\* SpecUnload: the delayed path and both sweeps, with the module unloaded
\* at any moment; after that no join event reaches the listener, the
\* handlers under way go on.
InitUnload == InitLive

NextUnload ==
    \/ \E u \in Users : Loaded /\ Quiet /\ MemberJoin(u, 1)
    \/ EvalSteps
    \/ DelaySteps
    \/ NotifySteps
    \/ SweepSteps
    \/ \E d \in {DaySeconds} : Loaded /\ Advance(d)
    \/ \E u \in DOMAIN delayed_members[1] : Loaded /\ MemberLeave(u, 1)
    \/ \E ul, uw, dl, dw \in BOOLEAN : CogUnload(ul, uw, dl, dw)

SpecUnload == InitUnload /\ [][NextUnload]_vars

\* ------------------------------------------------------------- claims
\* What a handler run leaves untouched when it takes no action.
NoEffect ==
    UNCHANGED <<rate, delayed_members, temp_banned_users, lockDelayed,
                lockTemp, members, banned>>

\* Handler u takes the step that completes its await at `pc`.
StepFrom(u, pc) == join[u].pc = pc /\ join'[u] # join[u]

\* C1: a member-join event in a guild whose enabled is false takes no
\* action, whatever the account age and action_type: the handler returns
\* from its first step having made no platform call (removal, direct
\* message, staff alert) and no write to a ledger table or to the rate
\* counters.
C1_DisabledJoinDoesNothing ==
    [][\A u \in Users :
          /\ (StepFrom(u, "read") /\ ~config[join[u].g].enabled)
                => (join'[u].pc = "done" /\ join'[u].did = {} /\ NoEffect)
          /\ (join'[u].pc \notin {"idle", "read", "done"}) => join'[u].s.enabled
      ]_vars

C1_Witness ==
    \E u \in Users :
        /\ join[u].pc = "done"
        /\ ~join[u].s.enabled
        /\ join[u].age < join[u].s.min_age_seconds
        /\ join[u].did = {}

\* C2: a member-join event with account age >= min_age (the boundary
\* age = min_age included) takes no action, for every action_type.
C2_OldEnoughJoinDoesNothing ==
    [][\A u \in Users :
          /\ (StepFrom(u, "read")
                /\ join'[u].age >= config[join[u].g].min_age_seconds)
                => (join'[u].pc = "done" /\ join'[u].did = {} /\ NoEffect)
          /\ (join'[u].pc \notin {"idle", "read", "done"})
                => join'[u].age < join'[u].s.min_age_seconds
      ]_vars

C2_Witness ==
    \E u \in Users :
        /\ join[u].pc = "done"
        /\ join[u].s.enabled
        /\ join[u].age = join[u].s.min_age_seconds
        /\ join[u].did = {}

\* C3: when a too-new member's join reaches the rate check of the ban path
\* while recent_bans_count = join_rate_limit inside the current 60-second
\* window, the handler ends there: no removal, no direct message, no write
\* to temp_banned_users, delayed_members or the rate counters, no staff
\* alert; and a run that was skipped has done nothing else.
C3_ExhaustedLimiterDropsJoin ==
    [][\A u \in Users :
          /\ (/\ StepFrom(u, "rl_read")
              /\ rate[join[u].g].recent_bans_count = config[join[u].g].join_rate_limit
              /\ now - rate[join[u].g].last_ban_timestamp <= RateWindow)
                => (/\ join'[u].pc = "done"
                    /\ join'[u].did = {"skipped"}
                    /\ NoEffect)
          /\ ("skipped" \in join'[u].did) => join'[u].did = {"skipped"}
      ]_vars

C3_Witness ==
    \E u \in Users :
        /\ join[u].pc = "done"
        /\ join[u].did = {"skipped"}
        /\ join[u].s.action_type = "ban"
        /\ join[u].age < join[u].s.min_age_seconds
        /\ rate[join[u].g].recent_bans_count = config[join[u].g].join_rate_limit
        /\ now - rate[join[u].g].last_ban_timestamp <= RateWindow
        /\ u \in members[join[u].g]
        /\ u \notin banned[join[u].g]

\* The runs of guild g whose removal succeeded at or after the last reset of
\* the counter.
BansSinceReset(g) ==
    {u \in Users : /\ join[u].g = g
                   /\ "ban" \in join[u].did
                   /\ join[u].banAt >= rate[g].reset_at}

\* Every removal attempted so far has succeeded.
NoFail == \A u \in Users : "banfail" \notin join[u].did

\* C4: joins handled one after another, every removal succeeding: a rate
\* check made within 60 seconds of the last reset admits exactly when fewer
\* than join_rate_limit removals were admitted since that reset (the
\* resetting one included) and rejects the next one; so exactly
\* join_rate_limit admissions succeed in the window.
C4_ExactlyLimitAdmissionsPerWindow ==
    [][\A u \in Users :
          LET g == join[u].g
              n == Cardinality(BansSinceReset(g))
          IN  (/\ StepFrom(u, "rl_read")
               /\ NoFail
               /\ rate[g].reset_at > 0
               /\ now - rate[g].reset_at <= RateWindow)
                 => /\ n <= config[g].join_rate_limit
                    /\ n < config[g].join_rate_limit => join'[u].pc = "dm"
                    /\ n = config[g].join_rate_limit
                          => (join'[u].pc = "done" /\ "skipped" \in join'[u].did)
      ]_vars

C4_Witness ==
    \E u \in Users :
        /\ join[u].pc = "done"
        /\ "skipped" \in join[u].did
        /\ NoFail
        /\ rate[join[u].g].reset_at > 0
        /\ now - rate[join[u].g].reset_at <= RateWindow
        /\ Cardinality(BansSinceReset(join[u].g)) = config[join[u].g].join_rate_limit

\* C5: a rate check made 60 seconds or more after the last reset of the
\* counter always resets recent_bans_count to 0 and admits, whatever bans
\* were recorded since that reset, the boundary of exactly 60 seconds
\* included.
C5_CheckAfterWindowResets ==
    [][\A u \in Users :
          (/\ StepFrom(u, "rl_read")
           /\ rate[join[u].g].reset_at > 0
           /\ now - rate[join[u].g].reset_at >= RateWindow)
             => join'[u].pc = "rl_zero"
      ]_vars

\* The runs of guild g that removed their member within the 60 seconds
\* from instant t on.
RemovalsFrom(g, t) ==
    {u \in Users : /\ join[u].g = g
                   /\ "ban" \in join[u].did
                   /\ join[u].banAt >= t
                   /\ join[u].banAt - t < RateWindow}

\* C6: for every guild and every interleaving of the join handlers at
\* their awaits, the immediate removals made by on_member_join in any
\* 60-second interval number at most join_rate_limit (which no step of
\* SpecRace changes).
C6_RemovalsWithinLimit ==
    \A u \in Users :
        "ban" \in join[u].did
            => Cardinality(RemovalsFrom(join[u].g, join[u].banAt))
                  <= config[join[u].g].join_rate_limit

\* A table without the keys in A, the other entries as they are.
Without(table, A) == [x \in (DOMAIN table) \ A |-> table[x]]

\* C7: when a sweep tick leaves the block of a guild (the write-back of
\* the table), every identity that was due for that guild at the tick is
\* absent from the table (temp_banned_users for unban_task, delayed_members
\* for delayed_punishment_task), whatever the unban or ban calls answered:
\* success, Forbidden, NotFound or another error.
C7_ProcessedIdentityIsCleared ==
    [][/\ (unb.pc = "write" /\ unb' # unb)
            => \A u \in unb.due[unb.g] : u \notin DOMAIN temp_banned_users'[unb.g]
       /\ (dly.pc = "write" /\ dly' # dly)
            => \A u \in dly.due[dly.g] : u \notin DOMAIN delayed_members'[dly.g]
      ]_vars

\* A member whose delayed ban failed: still present, the entry gone.
C7_Witness ==
    \E u \in Users :
        /\ "delayed" \in join[u].did
        /\ join[u].pc = "done"
        /\ u \in members[1]
        /\ u \notin DOMAIN delayed_members[1]
        /\ dly.pc = "sleep"
        /\ ~lockDelayed[1]

C9_DelayJoinSchedules ==
    [][\A u \in Users :
          /\ (StepFrom(u, "read") /\ join'[u].pc = "dl_lock")
                => /\ join'[u].now = now
                   /\ join'[u].s = config[join[u].g]
          /\ StepFrom(u, "dl_write")
                => /\ u \in DOMAIN delayed_members'[join[u].g]
                   /\ delayed_members'[join[u].g][u] =
                         join[u].now + join[u].s.delay_punishment_seconds
                   /\ Without(delayed_members'[join[u].g], {u}) =
                         Without(delayed_members[join[u].g], {u})
          /\ (\E pc \in {"dl_lock", "dl_write", "ns_read", "ns_send"} :
                 StepFrom(u, pc) /\ join[u].s.action_type = "delay")
                => UNCHANGED <<members, banned, temp_banned_users, rate>>
          /\ (join'[u].pc \notin {"idle", "read"}
                 /\ join'[u].s.enabled
                 /\ join'[u].s.action_type = "delay"
                 /\ join'[u].age < join'[u].s.min_age_seconds)
                => /\ join'[u].did \subseteq {"delayed", "alert"}
                   /\ join'[u].pc \in {"ns_read", "ns_send", "done"}
                         => "delayed" \in join'[u].did
      ]_vars

\* The entry stands in the table, written after the clock has moved on
\* from the instant of the evaluation; the member is still present.
C9_Witness ==
    \E u \in Users :
        /\ join[u].pc = "ns_read"
        /\ join[u].did = {"delayed"}
        /\ now > join[u].now
        /\ u \in DOMAIN delayed_members[join[u].g]
        /\ delayed_members[join[u].g][u] = join[u].now + DefaultDelay
        /\ u \in members[join[u].g]
        /\ u \notin banned[join[u].g]
        /\ temp_banned_users[join[u].g] = EmptyTable

\* The member has left the guild of their own accord.
Left(u) == u \notin members[1] /\ u \notin banned[1]

\* The running tick of the delayed sweep has made the ban call for u.
Attempted(u) == dly.g = 1 /\ u \in dly.tried

Restored(u) == unb.g = 1 /\ u \in unb.tried

\* C11: an entry of temp_banned_users whose instant has passed: a tick of
\* the unban sweep comes to make the unban call for that identity, and once
\* the call is made (whatever it answers) the identity comes to be absent
\* from temp_banned_users.
C11_ExpiredBanIsLifted ==
    \A u \in Users :
        /\ (u \in DOMAIN temp_banned_users[1] /\ now >= temp_banned_users[1][u])
              ~> Restored(u)
        /\ Restored(u) ~> (u \notin DOMAIN temp_banned_users[1])

\* The ban was lifted and its entry is gone.
C11_Witness ==
    \E u \in Users :
        /\ "tempban" \in join[u].did
        /\ u \notin banned[1]
        /\ u \notin DOMAIN temp_banned_users[1]
        /\ now >= join[u].banAt + DaySeconds
        /\ unb.pc = "sleep"

\* The awaits of the immediate-ban path.
BanPath ==
    {"rl_read", "rl_zero", "rl_stamp", "dm", "ban", "inc_read", "inc_count",
     "inc_stamp", "tb_lock", "tb_write"}

\* C12: a too-new member's join with action_type = ban and ban_type =
\* permanent that the rate limiter admits: when the ban call succeeds the
\* member is on the ban list and out of the guild, the handler ends after
\* the counter without entering the temporary-ban block, and no step of the
\* run changes temp_banned_users or delayed_members.
C12_PermanentBanWritesNoLedger ==
    [][\A u \in Users :
          (join[u].pc \in BanPath /\ join[u].s.ban_type = "permanent")
            => /\ join'[u] # join[u]
                    => UNCHANGED <<temp_banned_users, delayed_members,
                                   lockTemp, lockDelayed>>
               /\ (StepFrom(u, "ban") /\ "ban" \in join'[u].did)
                    => /\ u \in banned'[join[u].g]
                       /\ u \notin members'[join[u].g]
               /\ StepFrom(u, "inc_stamp") => join'[u].pc = "done"
               /\ join'[u].did \cap {"tempban", "delayed", "alert"} = {}
      ]_vars

C12_Witness ==
    \E u \in Users :
        /\ join[u].pc = "done"
        /\ join[u].s.ban_type = "permanent"
        /\ {"ban", "inc"} \subseteq join[u].did
        /\ u \in banned[join[u].g]
        /\ u \notin members[join[u].g]
        /\ temp_banned_users[join[u].g] = EmptyTable
        /\ delayed_members[join[u].g] = EmptyTable

\* C13: a too-new member's join with action_type = ban and ban_type =
\* temporary, admitted and with the ban call succeeding: after the counter
\* the handler enters the temporary-ban block and stores
\* temp_banned_users[member] = now + temp_ban_duration_seconds, now being the
\* instant read at the join's evaluation (which the run keeps), the other
\* entries as they were.
C13_TemporaryBanStoresExpiry ==
    [][\A u \in Users :
          /\ (StepFrom(u, "read") /\ join'[u].pc = "rl_read")
                => join'[u].now = now
          /\ (join[u].pc \in BanPath /\ join'[u].pc \in BanPath)
                => (join'[u].now = join[u].now /\ join'[u].s = join[u].s)
          /\ (StepFrom(u, "inc_stamp") /\ join[u].s.ban_type = "temporary")
                => join'[u].pc = "tb_lock"
          /\ StepFrom(u, "tb_write")
                => /\ "ban" \in join[u].did
                   /\ u \in DOMAIN temp_banned_users'[join[u].g]
                   /\ temp_banned_users'[join[u].g][u] =
                         join[u].now + join[u].s.temp_ban_duration_seconds
                   /\ Without(temp_banned_users'[join[u].g], {u}) =
                         Without(temp_banned_users[join[u].g], {u})
                   /\ join'[u].pc = "done"
      ]_vars

\* The entry is counted from the evaluation, not from the ban call that
\* came after the clock had moved on.
C13_Witness ==
    \E u \in Users :
        /\ join[u].pc = "done"
        /\ {"ban", "inc", "tempban"} \subseteq join[u].did
        /\ u \in banned[join[u].g]
        /\ u \in DOMAIN temp_banned_users[join[u].g]
        /\ temp_banned_users[join[u].g][u] <
              join[u].banAt + join[u].s.temp_ban_duration_seconds
        /\ temp_banned_users[join[u].g][u] >=
              StartTime + join[u].s.temp_ban_duration_seconds

\* C14: when the ban call of the immediate-ban path fails (Forbidden,
\* NotFound, another error) the handler ends at once with nothing written;
\* recent_bans_count grows only at the counter write of a run whose ban
\* call succeeded, by exactly 1, and every such run makes that write.
C14_FailedBanCountsNothing ==
    [][/\ \A u \in Users :
             /\ (StepFrom(u, "ban") /\ "banfail" \in join'[u].did)
                   => (join'[u].pc = "done" /\ NoEffect)
             /\ ("banfail" \in join'[u].did)
                   => join'[u].did \cap {"ban", "inc", "tempban"} = {}
             /\ (StepFrom(u, "ban") /\ "ban" \in join'[u].did)
                   => join'[u].pc = "inc_read"
             /\ (join'[u].pc = "done" /\ "ban" \in join'[u].did)
                   => "inc" \in join'[u].did
       /\ \A g \in Guilds :
             rate'[g].recent_bans_count > rate[g].recent_bans_count
                => /\ rate'[g].recent_bans_count = rate[g].recent_bans_count + 1
                   /\ \E u \in Users : /\ StepFrom(u, "inc_count")
                                       /\ join[u].g = g
                                       /\ "ban" \in join[u].did
      ]_vars

\* A run whose ban call failed, after an earlier one was counted.
C14_Witness ==
    \E u, v \in Users :
        /\ join[u].pc = "done"
        /\ "banfail" \in join[u].did
        /\ u \in members[join[u].g]
        /\ u \notin banned[join[u].g]
        /\ u \notin DOMAIN temp_banned_users[join[u].g]
        /\ join[v].pc = "done"
        /\ "inc" \in join[v].did
        /\ join[v].g = join[u].g
        /\ rate[join[u].g].recent_bans_count = 1

\* C15: a too-new member's join with action_type = notify: no step of the
\* run changes the membership, the ban list, a ledger table or the rate
\* counters; with no staff channel set the run ends at once with no alert;
\* a missing channel, a missing permission or a failing send end the run
\* too, with no alert.
C15_NotifyOnlyNotifies ==
    [][\A u \in Users :
          (join[u].s.enabled /\ join[u].s.action_type = "notify"
              /\ join[u].pc \in {"ns_read", "ns_send"} /\ join'[u] # join[u])
            => /\ NoEffect
               /\ join'[u].pc \in {"ns_send", "done"}
               /\ join[u].pc = "ns_send" => join'[u].pc = "done"
               /\ join'[u].did \subseteq {"alert"}
               /\ "alert" \in join'[u].did => join[u].pc = "ns_send"
               /\ (join[u].pc = "ns_read"
                     /\ config[join[u].g].staff_notification_channel_id = 0)
                     => (join'[u].pc = "done" /\ join'[u].did = {})
      ]_vars

\* The run ended without an alert, no staff channel being set.
C15_Witness ==
    \E u \in Users :
        /\ join[u].pc = "done"
        /\ join[u].s.enabled
        /\ join[u].s.staff_notification_channel_id = 0
        /\ join[u].s.action_type = "notify"
        /\ join[u].age < join[u].s.min_age_seconds
        /\ join[u].did = {}
        /\ u \in members[join[u].g]

\* Every identity on the tick's due lists, with its guild.
AllDue(w) == UNION {{<<g, u>> : u \in w.due[g]} : g \in Guilds}

C17_EntryAttemptedAtMostOnce ==
    \A k \in {"delayed", "temp"}, g \in Guilds, u \in Users :
        calls[k][g][u] <= 1

\* An unban call failed in an earlier tick: the user is still banned, with
\* no entry left; a later tick is under way for another user's entry.
C17_Witness ==
    \E u \in Users :
        /\ u \in banned[1]
        /\ u \notin DOMAIN temp_banned_users[1]
        /\ join[u].pc = "done"
        /\ "tempban" \in join[u].did
        /\ unb.pc = "unban"
        /\ unb.g = 1
        /\ unb.cur # u
        /\ u \notin unb.due[1]
        /\ calls["temp"][1][unb.cur] = 0

\* C18: neither sweep runs a tick before the hosting connection has
\* signalled readiness, though both loops are started at construction: a
\* step of a sweep loop (the scan of the ledgers, a ban or unban call, a
\* write-back) is taken only when the connection is ready, and until then
\* both loops are where construction left them.
C18_NoTickBeforeReady ==
    [][/\ (unb' # unb \/ dly' # dly) => ready
       /\ ~ready' => (unb' = IdleSweep /\ dly' = IdleSweep)
      ]_vars

\* The connection is not ready yet, an entry is already due, and the loop
\* that would process it has not moved.
C18_Witness ==
    /\ ~ready
    /\ \E u \in Users :
          /\ u \in DOMAIN delayed_members[1]
          /\ now >= delayed_members[1][u]
    /\ dly = IdleSweep
    /\ unb = IdleSweep

StepIn(g) ==
    \/ \E u \in Users : join'[u] # join[u] /\ join[u].g = g
    \/ unb' # unb /\ unb.g = g
    \/ dly' # dly /\ dly.g = g

\* C20: every quota, threshold and ledger is scoped to one guild.  The rate
\* counters, delayed_members and temp_banned_users of a guild change only
\* in steps of a join handler or a sweep working in that guild; a change of
\* one guild's settings changes nothing else; and the decision on a join
\* is taken on the settings and the rate counters of the guild joined.
C20_ScopedToOneGuild ==
    [][\A b \in Guilds :
          /\ (\/ rate'[b] # rate[b]
              \/ delayed_members'[b] # delayed_members[b]
              \/ temp_banned_users'[b] # temp_banned_users[b]) => StepIn(b)
          /\ config'[b] # config[b]
               => /\ \A a \in Guilds \ {b} : config'[a] = config[a]
                  /\ UNCHANGED <<rate, delayed_members, temp_banned_users,
                                 members, banned, join, unb, dly>>
          /\ \A u \in Users :
               (join[u].g = b /\ join'[u] # join[u])
                 => /\ join[u].pc = "read" => join'[u].s = config[b]
                    /\ join[u].pc = "rl_read"
                         => LET d == RateDecision(rate[b].last_ban_timestamp,
                                                  rate[b].recent_bans_count,
                                                  config[b].join_rate_limit,
                                                  now)
                            IN  /\ d = "reset" <=> join'[u].pc = "rl_zero"
                                /\ d = "reject" <=> "skipped" \in join'[u].did
                                /\ d = "admit" <=> join'[u].pc = "dm"
      ]_vars

\* With a limit of one ban a minute in each guild: one user was banned in
\* guild 1, the other was let stay there by the rate limit and, at the same
\* instant, banned on joining guild 2.
C20_Witness ==
    \E u, v \in Users :
        /\ u # v
        /\ ticks = 0
        /\ u \in banned[1]
        /\ v \in members[1]
        /\ v \in banned[2]
        /\ rate[1].recent_bans_count = 1
        /\ rate[2].recent_bans_count = 1
        /\ config[1].join_rate_limit = 1
        /\ config[2].join_rate_limit = 1

\* The number a text stands for, when it stands for one.
Bad(t) == ~IsInt(t)
BadOrEmpty(t) == ~IsIntOrEmpty(t)

\* A submission with an invalid value: non-numeric text, negative days or
\* hours, hours or minutes out of range, a rate limit <= 0, an action type
\* or a ban type outside the allowed words.
InvalidSubmission(s) ==
    CASE s.field \in {"min_age", "temp_ban"} ->
            \/ Bad(s.a) \/ BadOrEmpty(s.b)
            \/ IntOf(s.a) < 0 \/ IntOrZero(s.b) < 0 \/ IntOrZero(s.b) > 23
      [] s.field = "delay" ->
            \/ Bad(s.a) \/ BadOrEmpty(s.b)
            \/ IntOf(s.a) < 0 \/ IntOrZero(s.b) < 0 \/ IntOrZero(s.b) > 59
      [] s.field = "rate" -> Bad(s.a) \/ IntOf(s.a) <= 0
      [] s.field = "action" -> Lower(s.word) \notin {"ban", "delay", "notify"}
      [] s.field = "ban_type" -> Lower(s.word) \notin {"permanent", "temporary"}
      [] OTHER -> FALSE

\* The stored settings of every guild are within their ranges.
SettingsInRange ==
    \A g \in Guilds :
        /\ config[g].join_rate_limit >= 1
        /\ config[g].min_age_seconds >= 0
        /\ config[g].temp_ban_duration_seconds > 0
        /\ config[g].delay_punishment_seconds > 0
        /\ config[g].action_type \in {"ban", "delay", "notify"}
        /\ config[g].ban_type \in {"permanent", "temporary"}

\* C21: a settings submission with an invalid value is rejected and leaves
\* every stored setting as it was; hence in every reachable state
\* join_rate_limit >= 1, min_age_seconds >= 0, temp_ban_duration_seconds > 0,
\* delay_punishment_seconds > 0, action_type is ban, delay or notify and
\* ban_type is permanent or temporary.
C21_InvalidSettingsNeverStored ==
    /\ [](SettingsInRange)
    /\ [][(sub = NoSubmission /\ sub' # NoSubmission /\ InvalidSubmission(sub'))
            => config' = config]_vars

\* A rate limit of 0 has been submitted and refused: the settings stored by
\* earlier submissions stand.
C21_Witness ==
    /\ sub.field = "rate"
    /\ sub.a = <<"0">>
    /\ config[1].join_rate_limit = 60
    /\ config[1].min_age_seconds = 0
    /\ config[1].temp_ban_duration_seconds = DaySeconds + 3600
    /\ config[1].action_type = "delay"
    /\ config[1].ban_type = "temporary"

\* Table t2 is table t1 with the entry of u set, nothing else changed.
OnlyAdds(t1, t2, u) ==
    /\ DOMAIN t2 = DOMAIN t1 \cup {u}
    /\ \A v \in DOMAIN t1 \ {u} : t2[v] = t1[v]

\* Table t2 is table t1 less some identities out of A, nothing else changed.
OnlyDrops(t1, t2, A) ==
    /\ DOMAIN t2 \subseteq DOMAIN t1
    /\ DOMAIN t1 \ DOMAIN t2 \subseteq A
    /\ \A v \in DOMAIN t2 : t2[v] = t1[v]

\* C22: no ledger update is lost, however a join handler and a sweep tick of
\* one guild interleave.  A handler (or the delayed-punishment sweep) that
\* writes temp_banned_users or delayed_members adds its entry and keeps
\* every other entry the table holds at that moment; a sweep's write-back
\* drops only identities of the tick's due list and keeps every other
\* entry, those inserted since the tick began included; a handler that had
\* to wait for a table held by the sweep finds its entry stored afterwards.
C22_NoLostLedgerUpdate ==
    [][/\ \A u \in Users :
            /\ (join[u].pc = "dl_write" /\ join'[u] # join[u])
                 => OnlyAdds(delayed_members[join[u].g],
                             delayed_members'[join[u].g], u)
            /\ (join[u].pc = "tb_write" /\ join'[u] # join[u])
                 => OnlyAdds(temp_banned_users[join[u].g],
                             temp_banned_users'[join[u].g], u)
       /\ (dly.pc = "pun_tb_write" /\ dly' # dly)
            => OnlyAdds(temp_banned_users[dly.g], temp_banned_users'[dly.g],
                        dly.cur)
       /\ (dly.pc = "write" /\ dly' # dly)
            => OnlyDrops(delayed_members[dly.g], delayed_members'[dly.g],
                         dly.due[dly.g])
       /\ (unb.pc = "write" /\ unb' # unb)
            => OnlyDrops(temp_banned_users[unb.g], temp_banned_users'[unb.g],
                         unb.due[unb.g])
       /\ \A g \in Guilds :
            /\ delayed_members'[g] # delayed_members[g]
                 => \/ dly.pc = "write" /\ dly.g = g
                    \/ \E u \in Users : join[u].pc = "dl_write" /\ join[u].g = g
            /\ temp_banned_users'[g] # temp_banned_users[g]
                 => \/ unb.pc = "write" /\ unb.g = g
                    \/ dly.pc = "pun_tb_write" /\ dly.g = g
                    \/ \E u \in Users : join[u].pc = "tb_write" /\ join[u].g = g
      ]_vars

\* A handler reached the delayed_members block while the sweep held the
\* table for another member's due entry; the sweep has written back and
\* dropped that entry, the handler has inserted its own since, and it is
\* stored.
C22_Witness ==
    \E u, v \in Users :
        /\ u # v
        /\ join[u].pc = "ns_read"
        /\ {"waited", "delayed"} \subseteq join[u].did
        /\ u \in DOMAIN delayed_members[1]
        /\ v \notin DOMAIN delayed_members[1]
        /\ v \in banned[1]
        /\ dly.pc = "sleep"

\* C23: the rate counter is free of races: when the join handlers of a
\* guild, interleaved at their awaits in any way, have all finished,
\* recent_bans_count equals the number of removals that succeeded since the
\* last reset of the counter.
C23_CounterMatchesRemovals ==
    Quiet => \A g \in Guilds :
                rate[g].recent_bans_count = Cardinality(BansSinceReset(g))

\* C24: due-ness is decided by the stored instant alone: while a sweep's
\* ban or unban call for an identity is under way, the instant the ledger
\* table holds for that identity is at or before the current time (an entry
\* rewritten with a later instant after the tick's snapshot is not acted on).
C24_ActsOnStoredInstant ==
    /\ dly.pc = "pun_ban"
         => /\ dly.cur \in DOMAIN delayed_members[dly.g]
            /\ delayed_members[dly.g][dly.cur] <= now
    /\ unb.pc = "unban"
         => /\ unb.cur \in DOMAIN temp_banned_users[unb.g]
            /\ temp_banned_users[unb.g][unb.cur] <= now

\* C25: a tick works on the snapshot taken at its start: an entry that was
\* not due at the tick's reading of the clock (it became due, or was
\* inserted, while the tick was running) is not processed by that tick:
\* whenever a sweep is processing an identity, the instant stored for it is
\* at or before the tick's reading of the clock.
C25_TickWorksOnItsSnapshot ==
    /\ (/\ dly.pc \in {"pun_read", "pun_dm", "pun_ban"}
        /\ dly.cur \in DOMAIN delayed_members[dly.g])
         => delayed_members[dly.g][dly.cur] <= dly.now
    /\ (/\ unb.pc = "unban"
        /\ unb.cur \in DOMAIN temp_banned_users[unb.g])
         => temp_banned_users[unb.g][unb.cur] <= unb.now

\* C26: a platform call that never returns stalls only its own task: while
\* the sweep's ban call stays unanswered, a join handler of the same guild
\* that has its ledger entry to write still runs to completion.
C26_StuckCallStallsOnlyItsTask ==
    \A u \in Users : (join[u].pc = "dl_lock") ~> (join[u].pc = "done")

\* C27: enabled gates the whole feature: in a guild whose enabled flag is
\* false during a delayed-punishment tick nobody is removed, entries
\* scheduled while the feature was enabled included.
C27_DisabledGuildNoRemoval ==
    [][\A g \in Guilds : ~config[g].enabled => banned'[g] \subseteq banned[g]]_vars

\* The identities the delayed-punishment sweep still has before it in the
\* guild's block, at the top of the loop.
ToPunish == IF dly.pc = "lock" THEN dly.due[dly.g] ELSE dly.todo

\* The sweep's step takes u off its list without taking it up for a
\* punishment.
PassedOver(u) ==
    /\ dly.pc \in {"lock", "pun_ban", "pun_tb_write"}
    /\ dly'.pc \in {"pun_read", "write"}
    /\ u \in ToPunish
    /\ u \notin dly'.todo
    /\ ~(dly'.pc = "pun_read" /\ dly'.cur = u)

\* C28: a due identity that is no longer a member when the delayed-punishment
\* sweep comes to it is not taken up for a message or a removal, gets no ban
\* call and no temp_banned_users entry, and is deleted from delayed_members:
\* from the block's table in that step, and the block writes its table back.
C28_AbsentMemberOnlyCleared ==
    /\ [][/\ (dly'.pc = "pun_read" /\ dly.pc # "pun_read")
                => dly'.cur \in members'[dly'.g]
          /\ \A u \in Users : PassedOver(u) =>
                /\ u \notin members[dly.g]
                /\ u \notin dly'.tried
                /\ calls'["delayed"][dly.g][u] = calls["delayed"][dly.g][u]
                /\ (u \in banned'[dly.g]) = (u \in banned[dly.g])
                /\ (u \in DOMAIN temp_banned_users'[dly.g])
                      = (u \in DOMAIN temp_banned_users[dly.g])
                /\ u \notin DOMAIN dly'.copy
          /\ (dly.pc = "write" /\ dly'.pc # "write")
                => delayed_members'[dly.g] = dly.copy]_vars
    /\ [](dly.pc = "write" =>
             \A u \in dly.due[dly.g] : u \notin DOMAIN dly.copy)

\* The sweep is about to write its table back; a due identity had left the
\* guild, got no ban call and is off the table.
C28_Witness ==
    /\ dly.pc = "write"
    /\ \E u \in dly.due[dly.g] :
          /\ u \notin dly.tried
          /\ u \notin members[dly.g]
          /\ u \notin banned[dly.g]
          /\ u \in DOMAIN delayed_members[dly.g]
          /\ u \notin DOMAIN dly.copy

\* C29: on the immediate-ban path and in the delayed-punishment sweep the
\* message is attempted before the removal call (the ban call is reached
\* only from the message's await), every answer of the message (success,
\* Forbidden, HTTP error) is taken, and each of them leads to the ban call
\* and leaves the bans as they are.
C29_MessageThenRemovalAlways ==
    /\ [][/\ \A u \in Users :
               /\ (join'[u].pc = "ban" /\ join[u].pc # "ban") => join[u].pc = "dm"
               /\ (join[u].pc = "dm" /\ join'[u] # join[u])
                     => (join'[u].pc = "ban" /\ banned' = banned)
               /\ (u \in banned'[1] /\ u \notin banned[1])
                     => \/ join[u].pc = "ban"
                        \/ (dly.pc = "pun_ban" /\ dly.cur = u)
          /\ (dly'.pc = "pun_ban" /\ dly.pc # "pun_ban") => dly.pc = "pun_dm"
          /\ (dly.pc = "pun_dm" /\ dly' # dly)
                => (dly'.pc = "pun_ban" /\ dly'.cur = dly.cur /\ banned' = banned)]_vars
    /\ [](/\ \A u \in Users : join[u].pc = "dm" =>
                \A o \in DmOutcomes : ENABLED Join_DM(u, o)
          /\ dly.pc = "pun_dm" => \A o \in DmOutcomes : ENABLED Delayed_DM(o))

\* A member whose message failed has been banned by the join handler.
C29_Witness ==
    \E u \in Users :
        /\ "ban" \in join[u].did
        /\ "dm" \notin join[u].did
        /\ u \in banned[join[u].g]

\* C30: resets are lazy.  The counters change only in the writes of a
\* rate-limit check or of a ban record, and no write stamps an instant later
\* than the clock; a check that reads the record more than 60 seconds after
\* last_ban_timestamp goes on to set recent_bans_count to 0 and to admit,
\* whatever the counter was.
C30_ResetsAreLazy ==
    [][/\ rate' # rate =>
            /\ \E u \in Users :
                  \/ StepFrom(u, "rl_zero") \/ StepFrom(u, "rl_stamp")
                  \/ StepFrom(u, "inc_count") \/ StepFrom(u, "inc_stamp")
            /\ \A g \in Guilds : rate'[g].last_ban_timestamp <= now
       /\ \A u \in Users :
            /\ (/\ StepFrom(u, "rl_read")
                /\ now - rate[join[u].g].last_ban_timestamp > RateWindow)
                  => join'[u].pc = "rl_zero"
            /\ StepFrom(u, "rl_zero")
                  => /\ rate'[join[u].g].recent_bans_count = 0
                     /\ join'[u].pc = "rl_stamp"
            /\ StepFrom(u, "rl_stamp")
                  => /\ rate'[join[u].g].recent_bans_count
                          = rate[join[u].g].recent_bans_count
                     /\ join'[u].pc = "dm"]_vars

\* A check made more than 60 seconds after the last ban record, with the
\* counter at the limit, is about to set the counter to 0.
C30_Witness ==
    \E u \in Users :
        /\ join[u].pc = "rl_zero"
        /\ rate[join[u].g].last_ban_timestamp >= StartTime
        /\ now - rate[join[u].g].last_ban_timestamp > RateWindow
        /\ rate[join[u].g].recent_bans_count >= config[join[u].g].join_rate_limit

\* C31: failures inside the admission evaluation are contained: whatever the
\* direct message (success, Forbidden, HTTP error), the removal call
\* (success, Forbidden, NotFound, other error) and the staff notification
\* (success, permission error, other error) answer, each answer is taken by
\* the handler and no exception leaves on_member_join.
C31_NoExceptionLeavesJoinHandler ==
    \A u \in Users :
        /\ join[u].pc # "raised"
        /\ join[u].pc = "dm" => \A o \in DmOutcomes : ENABLED Join_DM(u, o)
        /\ join[u].pc = "ban" => \A o \in BanOutcomes : ENABLED Join_Ban(u, o)
        /\ join[u].pc = "ns_send" => \A o \in SendOutcomes : ENABLED Notify_Send(u, o)

\* A handler has returned after a message that failed and a removal call
\* that failed.
C31_Witness ==
    \E u \in Users :
        /\ join[u].pc = "done"
        /\ "banfail" \in join[u].did
        /\ "dm" \notin join[u].did

\* C32: the agegateset configure wizard guides through all options: each
\* submission of the wizard's modal that stores its setting advances the
\* run by one step and puts the next modal of the list before the admin,
\* and after the seventh the completion summary is shown.
C32_WizardPresentsEveryModal ==
    [][(/\ wiz.pc = "on"
        /\ wiz.shown # 0
        /\ wiz.shown = ModalIndex(sub.field)
        /\ Accepted(sub)
        /\ sub' = NoSubmission)
          => /\ wiz'.step = wiz.step + 1
             /\ IF wiz'.step < Len(modals)
                THEN wiz'.shown = wiz'.step + 1
                ELSE wiz'.summary]_vars

\* A step of a task that holds temp_banned_users: the join handler writing
\* its entry back, the un-ban sweep inside its block, the delayed sweep's
\* record of a temporary ban.
TempHolderStep ==
    \/ \E u \in Users : TempBan_Write(u)
    \/ \E o \in BanOutcomes, u \in Users : Unban_Call(o, u)
    \/ Unban_Write
    \/ Delayed_TempBan_Write

\* A step of a task that holds delayed_members: the join handler writing its
\* entry back, the delayed sweep inside its block.
DelayedHolderStep ==
    \/ \E u \in Users : Delay_Write(u)
    \/ Delayed_Read
    \/ \E o \in DmOutcomes : Delayed_DM(o)
    \/ \E o \in BanOutcomes : Delayed_Ban(o)
    \/ Delayed_TempBan_Lock
    \/ Delayed_TempBan_Write
    \/ Delayed_Write

\* C33: the tasks never deadlock on the ledger tables: whenever a table is
\* held, a task that holds a table can take its next step; the holder of
\* temp_banned_users never waits for a table, and the delayed sweep, the one
\* task that waits while it holds one, waits for temp_banned_users only.
C33_NoDeadlockOnTables ==
    \A g \in Guilds :
        /\ lockTemp[g] => ENABLED TempHolderStep
        /\ lockDelayed[g] => ENABLED (DelayedHolderStep \/ TempHolderStep)

\* The delayed sweep holds delayed_members and waits for temp_banned_users,
\* which the un-ban sweep holds during its unban call.
C33_Witness ==
    /\ dly.pc = "pun_tb_lock"
    /\ unb.pc = "unban"
    /\ unb.g = dly.g
    /\ lockTemp[dly.g]
    /\ lockDelayed[dly.g]

====
